---- MODULE Spec2Model ----
\* Storefront cart / checkout client: the cart store (nanostores atoms and
\* localStorage persistence), the cart initializer, the add-to-cart island,
\* the cart island and the checkout islands (address, shipping, payment),
\* running against a remote commerce backend whose calls are asynchronous.
EXTENDS Integers, Sequences, FiniteSets, TLC

\* ---------------------------------------------------------------------------
\* Bounds
\* ---------------------------------------------------------------------------
MaxCarts == 2
MaxQty == 2
\* handleSelectOption calls kept running by unmounted selectors
MaxOrphans == 1
\* a shipping option can be picked while fewer loadProviders calls run
MaxLoads == 1
\* values typed into the search box
MaxInputs == 3
\* the time one Tick lets pass, in ms
TickMs == 100

\* ---------------------------------------------------------------------------
\* Values
\* ---------------------------------------------------------------------------
CartIds == 1..MaxCarts
ItemIds == {"a", "b"}
ShipOptions == {"so1", "so2"}
Providers == {"pp1", "pp2"}
Regions == {0, 1}
Null == "null"

\* The key under which the store persists the cart identifier.
CART_ID_KEY == "medusa_cart_id"
\* Every key the client touches in localStorage.
StorageKeys == {CART_ID_KEY, "cart_id"}

\* Line items: a function from the identifiers of the items present to their
\* quantities.
ItemMaps == UNION {[S -> 1..MaxQty] : S \in SUBSET ItemIds}
NoItems == [i \in {} |-> 0]

\* JavaScript null for a cart (id 0 is "no identifier").
NullCart ==
    [id |-> 0, items |-> NoItems, completed_at |-> FALSE, region_id |-> 0,
     shipping_address |-> FALSE, shipping_methods |-> Null,
     payment_session |-> Null]

NewCart(id, region) ==
    [id |-> id, items |-> NoItems, completed_at |-> FALSE, region_id |-> region,
     shipping_address |-> FALSE, shipping_methods |-> Null,
     payment_session |-> Null]

\* The raw result of one backend call: it threw, or it returned a body.
Threw == [ok |-> FALSE, cart |-> NullCart, type |-> Null]
Returned(c) == [ok |-> TRUE, cart |-> c, type |-> "cart"]

\* screen-reader announcements ($cartAnnouncement); <<>> is null
NoAnnouncement == <<>>

VARIABLES
    storageMode,      \* how localStorage behaves in this browser session
    storage,          \* localStorage: key -> cart id (0 = no entry)
    server,           \* the backend's carts: id -> cart (NullCart = none)
    nextCartId,       \* the identifier the backend gives the next new cart
    cart,             \* $cart
    cartOpen,         \* $cartOpen
    cartLoading,      \* $cartLoading
    cartAnnouncement, \* $cartAnnouncement
    cartTrigger,      \* $cartTrigger
    initializer,      \* the running initializeCart call
    addToCart,        \* AddToCart island: state and running handler
    cartIsland,       \* Cart island: state and running handlers
    caller,           \* a direct call of a store function, until it runs
    checkoutForm,     \* CheckoutForm island: state and running handler
    shippingSelector, \* ShippingMethodSelector: state and running calls
    paymentForm,      \* PaymentForm: state and running calls
    milestones,       \* checkout milestones in the order first reached
    completed,        \* orders handed to PaymentForm's onComplete
    search,           \* Search island: state, debounce timer, running calls
    announcer,        \* CartAnnouncer: message, clear timer
    focus             \* the cart panel's opener and closeCart's focus request

vars ==
    <<storageMode, storage, server, nextCartId, cart, cartOpen, cartLoading,
      cartAnnouncement, cartTrigger, initializer, addToCart, cartIsland, caller,
      checkoutForm,
      shippingSelector, paymentForm, milestones, completed, search,
      announcer, focus>>

\* what no step of the cart and checkout islands changes
envVars == <<storageMode, search, announcer, focus>>
islandVars == <<storageMode, search, announcer>>
backendVars == <<server, nextCartId>>
panelVars == <<cartOpen, cartAnnouncement, cartTrigger>>
productVars == <<addToCart, cartIsland, caller>>
checkoutVars ==
    <<checkoutForm, shippingSelector, paymentForm, milestones, completed>>

\* ---------------------------------------------------------------------------
\* Cart store: computed values
\* ---------------------------------------------------------------------------
RECURSIVE SumQuantities(_, _)
SumQuantities(items, ids) ==
    IF ids = {} THEN 0
    ELSE LET i == CHOOSE x \in ids : TRUE
         IN  items[i] + SumQuantities(items, ids \ {i})

\* a count of the line items instead of their quantities
cartCount_lines(c) ==
    IF c = NullCart THEN 0 ELSE Cardinality(DOMAIN c.items)

\* $cartCount
cartCount(c) ==
    IF c = NullCart THEN 0 ELSE SumQuantities(c.items, DOMAIN c.items)

\* ---------------------------------------------------------------------------
\* Cart store: localStorage persistence
\* ---------------------------------------------------------------------------
getStoredCartId ==
    IF storageMode = "denied" THEN 0 ELSE storage[CART_ID_KEY]

setStoredCartId(st, cartId) ==
    IF storageMode = "ok" THEN [st EXCEPT ![CART_ID_KEY] = cartId] ELSE st

removeStoredCartId(st) ==
    IF storageMode = "denied" THEN st ELSE [st EXCEPT ![CART_ID_KEY] = 0]

\* a setCart that forgets the persisted identifier when given null
setCartStorage_clearing(st, c) ==
    IF c.id # 0 THEN setStoredCartId(st, c.id) ELSE removeStoredCartId(st)

\* setCart: the storage half ($cart.set(c) is cart' = c in the caller)
setCartStorage(st, c) ==
    IF c.id # 0 THEN setStoredCartId(st, c.id) ELSE st

\* ---------------------------------------------------------------------------
\* Backend
\* ---------------------------------------------------------------------------
\* medusa.store.cart.retrieve
RetrieveOutcomes(id) ==
    {Threw} \cup (IF server[id] = NullCart THEN {} ELSE {Returned(server[id])})

\* medusa.store.cart.create: a new empty cart under a fresh identifier
CreatedCart(region) == NewCart(nextCartId, region)

\* medusa.store.cart.createLineItem: one more unit of the variant; the
\* backend refuses a missing or completed cart and a quantity above stock
CanAddLineItem(id, i) ==
    /\ server[id] # NullCart
    /\ ~server[id].completed_at
    /\ (i \in DOMAIN server[id].items => server[id].items[i] < MaxQty)

WithLineItemAdded(c, i) ==
    [c EXCEPT !.items =
        IF i \in DOMAIN c.items
        THEN [c.items EXCEPT ![i] = @ + 1]
        ELSE [j \in DOMAIN c.items \cup {i} |->
                 IF j = i THEN 1 ELSE c.items[j]]]

\* medusa.store.cart.updateLineItem
CanChangeLineItem(id, i) ==
    /\ server[id] # NullCart
    /\ ~server[id].completed_at
    /\ i \in DOMAIN server[id].items

WithLineItemQuantity(c, i, q) == [c EXCEPT !.items = [c.items EXCEPT ![i] = q]]

\* medusa.store.cart.deleteLineItem
WithoutLineItem(c, i) ==
    [c EXCEPT !.items = [j \in DOMAIN c.items \ {i} |-> c.items[j]]]

\* ---------------------------------------------------------------------------
\* CheckoutForm: form data and validation.  A string is a sequence of
\* one-character strings.
\* ---------------------------------------------------------------------------
Fields ==
    {"email", "firstName", "lastName", "address", "apartment", "city",
     "postalCode", "country", "phone"}

EmailValues ==
    {<<>>, <<" ">>, <<"f", "o", "o">>, <<"a", "@", "b", ".", "c">>,
     <<"a", "@", "b">>}
TextValues == {<<>>, <<"x">>}
PaddedValues == {<<>>, <<" ">>, <<" ", "x">>}

\* what the user can type or pick in each input
FieldValues(name) ==
    CASE name = "email" -> EmailValues
      [] name = "firstName" -> PaddedValues
      [] name = "country" -> {<<"u", "s">>, <<"c", "a">>}
      [] name \in {"apartment", "phone"} -> {<<>>}
      [] OTHER -> TextValues

\* one acceptable value for each input
AcceptedValues(name) ==
    CASE name = "email" -> {<<"a", "@", "b", ".", "c">>}
      [] name = "firstName" -> {<<" ", "x">>}
      [] name = "country" -> {<<"u", "s">>}
      [] name \in {"apartment", "phone"} -> {<<>>}
      [] OTHER -> {<<"x">>}

initialFormData ==
    [email |-> <<>>, firstName |-> <<>>, lastName |-> <<>>, address |-> <<>>,
     apartment |-> <<>>, city |-> <<>>, postalCode |-> <<>>,
     country |-> <<"u", "s">>, phone |-> <<>>]

\* \s
IsSpace(ch) == ch \in {" ", "\t", "\n"}

RECURSIVE trimStart(_)
trimStart(s) ==
    IF s # <<>> /\ IsSpace(Head(s)) THEN trimStart(Tail(s)) ELSE s

RECURSIVE trimEnd(_)
trimEnd(s) ==
    IF s # <<>> /\ IsSpace(s[Len(s)])
    THEN trimEnd(SubSeq(s, 1, Len(s) - 1))
    ELSE s

\* a trim that returns its argument
trim_nothing(s) == s

\* String.prototype.trim
trim(s) == trimEnd(trimStart(s))

\* [^\s@]+ matches s[from..to]
PlainRun(s, from, to) ==
    /\ from <= to
    /\ \A k \in from..to : ~IsSpace(s[k]) /\ s[k] # "@"

\* /^[^\s@]+@[^\s@]+\.[^\s@]+$/.test(s)
EmailPattern(s) ==
    \E i, j \in 1..Len(s) :
        /\ i < j
        /\ s[i] = "@"
        /\ s[j] = "."
        /\ PlainRun(s, 1, i - 1)
        /\ PlainRun(s, i + 1, j - 1)
        /\ PlainRun(s, j + 1, Len(s))

\* the message validateForm gives a field, Null when it has none
FieldError(formData, name) ==
    CASE name = "email" ->
            IF trim(formData.email) = <<>> THEN "Email is required"
            ELSE IF ~EmailPattern(formData.email)
                 THEN "Please enter a valid email"
                 ELSE Null
      [] name = "firstName" ->
            IF trim(formData.firstName) = <<>>
            THEN "First name is required" ELSE Null
      [] name = "lastName" ->
            IF trim(formData.lastName) = <<>>
            THEN "Last name is required" ELSE Null
      [] name = "address" ->
            IF trim(formData.address) = <<>>
            THEN "Address is required" ELSE Null
      [] name = "city" ->
            IF trim(formData.city) = <<>> THEN "City is required" ELSE Null
      [] name = "postalCode" ->
            IF trim(formData.postalCode) = <<>>
            THEN "Postal code is required" ELSE Null
      [] name = "country" ->
            IF trim(formData.country) = <<>>
            THEN "Country is required" ELSE Null
      [] OTHER -> Null

\* validateForm: newErrors, a map from the fields in error to their messages
validateForm(formData) ==
    LET bad == {name \in Fields : FieldError(formData, name) # Null}
    IN  [name \in bad |-> FieldError(formData, name)]

NoErrors == [name \in {} |-> Null]

\* ---------------------------------------------------------------------------
\* Checkout islands: mounting and effects.  ShippingMethodSelector is rendered
\* while isSubmitted, PaymentForm while isSubmitted and isShippingSelected;
\* a freshly mounted component starts from its useState defaults and runs its
\* effect, and the effect runs again when one of its dependencies changes.
\* ---------------------------------------------------------------------------
NoSelect == [pc |-> "idle", cartId |-> 0, optionId |-> Null, response |-> Threw]

initialShippingSelector ==
    [shippingOptions |-> {}, selectedOption |-> Null, isLoading |-> TRUE,
     isSaving |-> FALSE, error |-> Null, fetches |-> {}, select |-> NoSelect,
     orphans |-> {}]

\* fetchShippingOptions up to its await, for the cart of the current render
\* (the running call keeps what it reads of that cart after the await)
fetchShippingOptions(sel, c) ==
    IF c.id = 0
    THEN [sel EXCEPT !.isLoading = FALSE]
    ELSE [sel EXCEPT !.error = Null,
                     !.fetches = @ \cup
                        {[pc |-> "sent", cartId |-> c.id,
                          shipping_methods |-> c.shipping_methods,
                          ok |-> FALSE, options |-> {}]}]

\* an unmounted ShippingMethodSelector: its state is gone and its setState
\* calls are ignored, but a running handleSelectOption still reaches setCart
\* and the parent's onComplete
Unmounted(sel) ==
    [initialShippingSelector EXCEPT
        !.orphans = sel.orphans \cup
                    (IF sel.select.pc = "idle" THEN {} ELSE {sel.select})]

ShippingRender(sel, wasMounted, isMounted, oldCart, newCart) ==
    IF ~isMounted
    THEN IF wasMounted THEN Unmounted(sel) ELSE sel
    ELSE IF ~wasMounted
         THEN fetchShippingOptions(
                  [initialShippingSelector EXCEPT !.orphans = sel.orphans],
                  newCart)
         ELSE IF oldCart.id # newCart.id
              THEN fetchShippingOptions(sel, newCart)
              ELSE sel

NoPaymentCall ==
    [pc |-> "idle", kind |-> Null, cartId |-> 0, providerId |-> Null,
     response |-> Threw]

initialPaymentForm ==
    [isLoading |-> TRUE, isProcessing |-> FALSE, error |-> Null,
     providers |-> {}, selectedProvider |-> Null, loads |-> {},
     call |-> NoPaymentCall]

\* loadProviders up to its await, for the cart of the current render (the
\* running call keeps what it reads of that cart after the await)
loadProviders(pay, c) ==
    IF c.region_id = 0
    THEN pay
    ELSE [pay EXCEPT !.loads = @ \cup
                        {[pc |-> "sent", region_id |-> c.region_id,
                          payment_session |-> c.payment_session,
                          ok |-> FALSE, providers |-> {}]}]

\* a CheckoutForm that renders PaymentForm as soon as the address is saved
PaymentMounted_onAddress(form) == form.isSubmitted

\* CheckoutForm renders PaymentForm
PaymentMounted(form) == form.isSubmitted /\ form.isShippingSelected

\* the effect's dependencies [cart?.region_id, cart?.payment_collection]:
\* a payment collection is a fresh object in every cart the store is given
PaymentDepsChanged(oldCart, newCart, replaced) ==
    \/ oldCart.region_id # newCart.region_id
    \/ /\ replaced
       /\ ~(oldCart.payment_session = Null /\ newCart.payment_session = Null)

PaymentRender(pay, wasMounted, isMounted, oldCart, newCart, replaced) ==
    IF ~isMounted
    THEN IF wasMounted THEN initialPaymentForm ELSE pay
    ELSE IF ~wasMounted
         THEN loadProviders(initialPaymentForm, newCart)
         ELSE IF PaymentDepsChanged(oldCart, newCart, replaced)
              THEN loadProviders(pay, newCart)
              ELSE pay

\* the re-render after a handler: the handler left the two components in sel
\* and pay (its own setState calls), CheckoutForm in form and the store's
\* cart in newCart
Rendered(sel, pay, form, newCart, replaced) ==
    /\ shippingSelector' =
          ShippingRender(sel, checkoutForm.isSubmitted, form.isSubmitted,
                         cart, newCart)
    /\ paymentForm' =
          PaymentRender(pay, PaymentMounted(checkoutForm), PaymentMounted(form),
                        cart, newCart, replaced)

\* $cart.set(c) from outside the checkout islands
CartSet(c) ==
    /\ cart' = c
    /\ Rendered(shippingSelector, paymentForm, checkoutForm, c, TRUE)
    /\ UNCHANGED <<checkoutForm, milestones, completed>>

\* setCart(c) from outside the checkout islands
setCart(c) ==
    /\ CartSet(c)
    /\ storage' = setCartStorage(storage, c)

\* clearCart
clearCart ==
    /\ CartSet(NullCart)
    /\ storage' = removeStoredCartId(storage)

\* ---------------------------------------------------------------------------
\* Initial states: a page load.  localStorage and the backend carry over
\* from earlier visits; everything else is freshly constructed.
\* ---------------------------------------------------------------------------
EarlierCarts ==
    {[id |-> 1, items |-> it, completed_at |-> ca, region_id |-> rg,
      shipping_address |-> FALSE, shipping_methods |-> Null,
      payment_session |-> Null] :
        it \in ItemMaps, ca \in BOOLEAN, rg \in {0, 1}}

InitEnv ==
    /\ storageMode \in {"ok", "quota", "denied"}
    /\ \/ /\ nextCartId = 1
          /\ storage = [k \in StorageKeys |-> 0]
          /\ server = [c \in CartIds |-> NullCart]
       \/ /\ nextCartId = 2
          /\ storage = [k \in StorageKeys |-> IF k = CART_ID_KEY THEN 1 ELSE 0]
          /\ \E c1 \in EarlierCarts \cup {NullCart} :
                server = [c \in CartIds |-> IF c = 1 THEN c1 ELSE NullCart]

InitStore ==
    /\ cart = NullCart
    /\ cartOpen = FALSE
    /\ cartLoading = FALSE
    /\ cartAnnouncement = NoAnnouncement
    /\ cartTrigger = Null
    /\ initializer = [pc |-> "idle", storedCartId |-> 0, wrapped |-> TRUE,
                      response |-> Threw, result |-> 0]

InitCheckout ==
    /\ checkoutForm = [formData |-> initialFormData, errors |-> NoErrors,
                       isLoading |-> FALSE, apiError |-> Null,
                       isSubmitted |-> FALSE, isShippingSelected |-> FALSE,
                       pc |-> "idle", cartId |-> 0, response |-> Threw]
    /\ shippingSelector = initialShippingSelector
    /\ paymentForm = initialPaymentForm
    /\ milestones = <<>>
    /\ completed = {}

Idle == [op |-> "idle", cart |-> NullCart]

InitProductPage ==
    /\ caller = Idle
    /\ addToCart = [pc |-> "idle", isLoading |-> FALSE, error |-> Null,
                    cartId |-> 0, response |-> Threw]
    /\ cartIsland = [updatingItems |-> {}, error |-> Null,
                     calls |-> [i \in ItemIds |->
                                   [pc |-> "idle", cartId |-> 0,
                                    newQuantity |-> 0, response |-> Threw]]]

\* ---------------------------------------------------------------------------
\* CartInitializer / initializeCart
\* ---------------------------------------------------------------------------
\* initializeCart up to its await; wrapped: the fetch function is
\* CartInitializer's wrapper, which turns a throwing getCart into null
initializeCart(wrapped) ==
    /\ initializer.pc = "idle"
    /\ LET storedCartId == getStoredCartId IN
       IF storedCartId = 0
       THEN /\ initializer' = [initializer EXCEPT !.pc = "done",
                                  !.wrapped = wrapped, !.result = 0]
            /\ UNCHANGED cartLoading
       ELSE /\ initializer' = [initializer EXCEPT !.pc = "fetching",
                                  !.wrapped = wrapped,
                                  !.storedCartId = storedCartId]
            /\ cartLoading' = TRUE
    /\ UNCHANGED <<envVars, storage, backendVars, cart, panelVars,
                   productVars, checkoutVars>>

\* the effect of the CartInitializer component
CartInitializer ==
    /\ cart = NullCart
    /\ initializeCart(TRUE)

\* initializeCart called with a fetch function that lets failures through
initializeCartDirect == initializeCart(FALSE)

\* the backend answers the initializer's getCart
initializeCart_fetch ==
    /\ initializer.pc = "fetching"
    /\ \E r \in RetrieveOutcomes(initializer.storedCartId) :
          initializer' = [initializer EXCEPT !.pc = "fetched", !.response = r]
    /\ UNCHANGED <<envVars, storage, backendVars, cart, cartLoading,
                   panelVars, productVars, checkoutVars>>

\* an initializeCart that adopts whatever cart the fetch returns
initializeCart_resume_adopting ==
    /\ initializer.pc = "fetched"
    /\ LET response == initializer.response IN
       IF response.ok
       THEN /\ CartSet(response.cart)
            /\ initializer' = [initializer EXCEPT
                                  !.pc = "done",
                                  !.result = response.cart.id]
            /\ UNCHANGED storage
       ELSE /\ storage' = removeStoredCartId(storage)
            /\ initializer' = [initializer EXCEPT !.pc = "done", !.result = 0]
            /\ UNCHANGED <<cart, checkoutVars>>
    /\ cartLoading' = FALSE
    /\ UNCHANGED <<envVars, backendVars, panelVars, productVars>>

\* an initializeCart that keeps the stored identifier when the fetch fails
initializeCart_resume_keeping ==
    /\ initializer.pc = "fetched"
    /\ LET response == initializer.response IN
       IF response.ok /\ ~response.cart.completed_at
       THEN /\ CartSet(response.cart)
            /\ initializer' = [initializer EXCEPT
                                  !.pc = "done",
                                  !.result = response.cart.id]
            /\ UNCHANGED storage
       ELSE /\ storage' = IF response.ok THEN removeStoredCartId(storage)
                          ELSE storage
            /\ initializer' = [initializer EXCEPT !.pc = "done", !.result = 0]
            /\ UNCHANGED <<cart, checkoutVars>>
    /\ cartLoading' = FALSE
    /\ UNCHANGED <<envVars, backendVars, panelVars, productVars>>

\* an initializeCart that does not reset $cartLoading when it discards a
\* completed cart
initializeCart_resume_loading ==
    /\ initializer.pc = "fetched"
    /\ LET response == initializer.response IN
       IF response.ok
       THEN IF response.cart.completed_at
            THEN /\ storage' = removeStoredCartId(storage)
                 /\ initializer' = [initializer EXCEPT !.pc = "done",
                                                       !.result = 0]
                 /\ UNCHANGED <<cart, checkoutVars, cartLoading>>
            ELSE /\ CartSet(response.cart)
                 /\ initializer' = [initializer EXCEPT
                                       !.pc = "done",
                                       !.result = response.cart.id]
                 /\ cartLoading' = FALSE
                 /\ UNCHANGED storage
       ELSE /\ storage' = removeStoredCartId(storage)
            /\ initializer' = [initializer EXCEPT !.pc = "done", !.result = 0]
            /\ cartLoading' = FALSE
            /\ UNCHANGED <<cart, checkoutVars>>
    /\ UNCHANGED <<envVars, backendVars, panelVars, productVars>>

\* initializeCart after its await
initializeCart_resume ==
    /\ initializer.pc = "fetched"
    /\ LET response == initializer.response IN
       IF response.ok
       THEN IF response.cart.completed_at
            THEN \* cart was completed, clear it
                 /\ storage' = removeStoredCartId(storage)
                 /\ initializer' = [initializer EXCEPT !.pc = "done",
                                                       !.result = 0]
                 /\ UNCHANGED <<cart, checkoutVars>>
            ELSE /\ CartSet(response.cart)
                 /\ initializer' = [initializer EXCEPT
                                       !.pc = "done",
                                       !.result = response.cart.id]
                 /\ UNCHANGED storage
       ELSE \* the wrapper returned null (cart not found), or fetchCart threw
            /\ storage' = removeStoredCartId(storage)
            /\ initializer' = [initializer EXCEPT !.pc = "done", !.result = 0]
            /\ UNCHANGED <<cart, checkoutVars>>
    /\ cartLoading' = FALSE
    /\ UNCHANGED <<envVars, backendVars, panelVars, productVars>>

\* ---------------------------------------------------------------------------
\* Announcements
\* ---------------------------------------------------------------------------
\* setTimeout(..., 1000)
AnnouncementDelay == 1000

\* a CartAnnouncer after its first render: announcement is the value of
\* $cartAnnouncement its effect last ran for; placedMs is the time since an
\* island last set $cartAnnouncement, placedEarly whether it did so while a
\* clear timer was pending and not yet due
initialAnnouncer ==
    [announcement |-> NoAnnouncement, message |-> NoAnnouncement,
     timer |-> [pending |-> FALSE, ms |-> 0], placedMs |-> 0,
     placedEarly |-> FALSE]

\* $cartAnnouncement.set(message) of an island, as the announcer's clock
\* sees it
Announced ==
    [announcer EXCEPT
        !.placedMs = 0,
        !.placedEarly = /\ announcer.timer.pending
                        /\ announcer.timer.ms < AnnouncementDelay]

\* ---------------------------------------------------------------------------
\* AddToCart island (its variant is line item "a")
\* ---------------------------------------------------------------------------
Variant == "a"

\* a handleAddToCart that creates a cart for every item
handleAddToCart_creating ==
    /\ addToCart.pc = "idle"
    /\ ~addToCart.isLoading
    /\ addToCart' = [addToCart EXCEPT
                        !.isLoading = TRUE,
                        !.error = Null,
                        !.cartId = cart.id,
                        !.pc = "creating"]
    /\ UNCHANGED <<envVars, storage, backendVars, cart, cartLoading,
                   panelVars, initializer, cartIsland, caller, checkoutVars>>

\* handleAddToCart up to its first await
handleAddToCart ==
    /\ addToCart.pc = "idle"
    /\ ~addToCart.isLoading
    /\ addToCart' = [addToCart EXCEPT
                        !.isLoading = TRUE,
                        !.error = Null,
                        !.cartId = cart.id,
                        !.pc = IF cart.id = 0 THEN "creating" ELSE "adding"]
    /\ UNCHANGED <<envVars, storage, backendVars, cart, cartLoading,
                   panelVars, initializer, cartIsland, caller, checkoutVars>>

\* the backend answers createCart
handleAddToCart_create ==
    /\ addToCart.pc = "creating"
    /\ \/ /\ addToCart' = [addToCart EXCEPT !.pc = "created",
                                            !.response = Threw]
          /\ UNCHANGED backendVars
       \/ /\ nextCartId <= MaxCarts
          /\ \E region \in Regions :
                /\ server' = [server EXCEPT ![nextCartId] = CreatedCart(region)]
                /\ addToCart' = [addToCart EXCEPT
                      !.pc = "created",
                      !.response = Returned(CreatedCart(region))]
          /\ nextCartId' = nextCartId + 1
    /\ UNCHANGED <<envVars, storage, cart, cartLoading, panelVars,
                   initializer, cartIsland, caller, checkoutVars>>

\* handleAddToCart between createCart and addToCart
handleAddToCart_created ==
    /\ addToCart.pc = "created"
    /\ LET response == addToCart.response IN
       IF response.ok
       THEN /\ setCart(response.cart)
            /\ addToCart' = [addToCart EXCEPT !.pc = "adding",
                                              !.cartId = response.cart.id]
       ELSE /\ addToCart' = [addToCart EXCEPT
                                !.pc = "idle",
                                !.error = "Failed to add item. Please try again.",
                                !.isLoading = FALSE]
            /\ UNCHANGED <<cart, storage, checkoutVars>>
    /\ UNCHANGED <<envVars, backendVars, cartLoading, panelVars,
                   initializer, cartIsland, caller>>

\* the backend answers addToCart (createLineItem)
handleAddToCart_add ==
    /\ addToCart.pc = "adding"
    /\ \/ /\ addToCart' = [addToCart EXCEPT !.pc = "added", !.response = Threw]
          /\ UNCHANGED server
       \/ /\ CanAddLineItem(addToCart.cartId, Variant)
          /\ LET updated == WithLineItemAdded(server[addToCart.cartId], Variant)
             IN  /\ server' = [server EXCEPT ![addToCart.cartId] = updated]
                 /\ addToCart' = [addToCart EXCEPT
                       !.pc = "added", !.response = Returned(updated)]
    /\ UNCHANGED <<envVars, storage, nextCartId, cart, cartLoading,
                   panelVars, initializer, cartIsland, caller, checkoutVars>>

\* handleAddToCart after addToCart
handleAddToCart_added ==
    /\ addToCart.pc = "added"
    /\ LET response == addToCart.response IN
       IF response.ok
       THEN /\ setCart(response.cart)
            /\ cartAnnouncement' = <<"Added", Variant>>
            /\ announcer' = Announced
            /\ cartOpen' = TRUE
            /\ addToCart' = [addToCart EXCEPT !.pc = "idle",
                                              !.isLoading = FALSE]
       ELSE /\ addToCart' = [addToCart EXCEPT
                                !.pc = "idle",
                                !.error = "Failed to add item. Please try again.",
                                !.isLoading = FALSE]
            /\ UNCHANGED <<cart, storage, cartAnnouncement, announcer,
                           cartOpen, checkoutVars>>
    /\ UNCHANGED <<storageMode, search, focus, backendVars, cartLoading, cartTrigger,
                   initializer, cartIsland, caller>>

\* ---------------------------------------------------------------------------
\* CartButton and the cart panel
\* ---------------------------------------------------------------------------
\* no panel is open and closeCart has scheduled no focus
initialFocus == [opener |-> Null, returnTo |-> Null]

\* CartButton.handleClick: openCart(e.currentTarget); the open panel's
\* backdrop covers the button
handleClick ==
    /\ ~cartOpen
    /\ cartTrigger' = "CartButton"
    /\ cartOpen' = TRUE
    /\ focus' = [focus EXCEPT !.opener = "CartButton"]
    /\ UNCHANGED <<islandVars, storage, backendVars, cart, cartLoading,
                   cartAnnouncement, initializer, productVars,
                   checkoutVars>>

\* a closeCart that keeps the stored trigger
closeCart_remembering ==
    /\ cartOpen
    /\ cartOpen' = FALSE
    /\ cartTrigger' = cartTrigger
    /\ focus' = [opener |-> Null, returnTo |-> cartTrigger]
    /\ UNCHANGED <<islandVars, storage, backendVars, cart, cartLoading,
                   cartAnnouncement, initializer, productVars,
                   checkoutVars>>

\* closeCart: Escape, the backdrop, the close button, "Continue Shopping";
\* returnTo is the element whose focus() this call scheduled, if any
closeCart ==
    /\ cartOpen
    /\ cartOpen' = FALSE
    /\ cartTrigger' = Null
    /\ focus' = [opener |-> Null, returnTo |-> cartTrigger]
    /\ UNCHANGED <<islandVars, storage, backendVars, cart, cartLoading,
                   cartAnnouncement, initializer, productVars,
                   checkoutVars>>

\* ---------------------------------------------------------------------------
\* Cart island
\* ---------------------------------------------------------------------------
UpdateFailed == "Failed to update item. Please try again."

\* a handleUpdateQuantity that writes the new quantity into the snapshot
\* before the backend answers
handleUpdateQuantity_patching(lineItemId, newQuantity) ==
    /\ cart.id # 0
    /\ cartIsland' = [cartIsland EXCEPT
          !.error = Null,
          !.updatingItems = @ \cup {lineItemId},
          !.calls[lineItemId] =
              [pc |-> IF newQuantity = 0 THEN "removing" ELSE "updating",
               cartId |-> cart.id, newQuantity |-> newQuantity,
               response |-> Threw]]
    /\ cart' = [cart EXCEPT !.items[lineItemId] = newQuantity]
    /\ UNCHANGED <<envVars, storage, backendVars, cartLoading,
                   panelVars, initializer, addToCart, caller, checkoutVars>>

\* a handleUpdateQuantity that sends every new quantity as an update
handleUpdateQuantity_zero(lineItemId, newQuantity) ==
    /\ cart.id # 0
    /\ cartIsland' = [cartIsland EXCEPT
          !.error = Null,
          !.updatingItems = @ \cup {lineItemId},
          !.calls[lineItemId] =
              [pc |-> "updating",
               cartId |-> cart.id, newQuantity |-> newQuantity,
               response |-> Threw]]
    /\ UNCHANGED <<envVars, storage, backendVars, cart, cartLoading,
                   panelVars, initializer, addToCart, caller, checkoutVars>>

\* handleUpdateQuantity up to its first await
handleUpdateQuantity(lineItemId, newQuantity) ==
    /\ cart.id # 0
    /\ cartIsland' = [cartIsland EXCEPT
          !.error = Null,
          !.updatingItems = @ \cup {lineItemId},
          !.calls[lineItemId] =
              [pc |-> IF newQuantity = 0 THEN "removing" ELSE "updating",
               cartId |-> cart.id, newQuantity |-> newQuantity,
               response |-> Threw]]
    /\ UNCHANGED <<envVars, storage, backendVars, cart, cartLoading,
                   panelVars, initializer, addToCart, caller, checkoutVars>>

\* controls that are disabled while any item is updating
ItemControls_exclusive(i) ==
    /\ cartOpen
    /\ i \in DOMAIN cart.items
    /\ cartIsland.updatingItems = {}

\* controls that stay enabled while the item is updating
ItemControls_enabled(i) ==
    /\ cartOpen
    /\ i \in DOMAIN cart.items

\* a line item's controls are rendered in the open panel and disabled while
\* the item is updating
ItemControls(i) ==
    /\ cartOpen
    /\ i \in DOMAIN cart.items
    /\ i \notin cartIsland.updatingItems

\* the "-" button
decrease(i) ==
    /\ ItemControls(i)
    /\ ~(cart.items[i] <= 1)
    /\ handleUpdateQuantity(i, cart.items[i] - 1)

\* the "+" button
increase(i) ==
    /\ ItemControls(i)
    /\ cart.items[i] < MaxQty
    /\ handleUpdateQuantity(i, cart.items[i] + 1)

\* the "Remove" button
handleRemoveItem(i) ==
    /\ ItemControls(i)
    /\ handleUpdateQuantity(i, 0)

\* a finally block that empties updatingItems
Settled_all(island, i, failed) ==
    [island EXCEPT
        !.error = IF failed THEN UpdateFailed ELSE @,
        !.updatingItems = {},
        !.calls[i] = [pc |-> "idle", cartId |-> 0, newQuantity |-> 0,
                      response |-> Threw]]

\* the finally block: the item's entry leaves updatingItems
Settled(island, i, failed) ==
    [island EXCEPT
        !.error = IF failed THEN UpdateFailed ELSE @,
        !.updatingItems = @ \ {i},
        !.calls[i] = [pc |-> "idle", cartId |-> 0, newQuantity |-> 0,
                      response |-> Threw]]

\* the backend answers removeLineItem
handleUpdateQuantity_remove(i) ==
    /\ cartIsland.calls[i].pc = "removing"
    /\ LET call == cartIsland.calls[i] IN
       \/ /\ cartIsland' = [cartIsland EXCEPT !.calls[i].pc = "removed",
                                              !.calls[i].response = Threw]
          /\ UNCHANGED server
       \/ /\ CanChangeLineItem(call.cartId, i)
          /\ LET updated == WithoutLineItem(server[call.cartId], i) IN
             /\ server' = [server EXCEPT ![call.cartId] = updated]
             /\ cartIsland' = [cartIsland EXCEPT
                   !.calls[i].pc = "removed",
                   !.calls[i].response = Returned(updated)]
    /\ UNCHANGED <<envVars, storage, nextCartId, cart, cartLoading,
                   panelVars, initializer, addToCart, caller, checkoutVars>>

\* handleUpdateQuantity between removeLineItem and getCart: the delete's
\* body is not used
handleUpdateQuantity_removed(i) ==
    /\ cartIsland.calls[i].pc = "removed"
    /\ cartIsland' =
          IF cartIsland.calls[i].response.ok
          THEN [cartIsland EXCEPT !.calls[i].pc = "refetching",
                                  !.calls[i].response = Threw]
          ELSE Settled(cartIsland, i, TRUE)
    /\ UNCHANGED <<envVars, storage, backendVars, cart, cartLoading,
                   panelVars, initializer, addToCart, caller, checkoutVars>>

\* the backend answers the getCart that follows a delete
handleUpdateQuantity_refetch(i) ==
    /\ cartIsland.calls[i].pc = "refetching"
    /\ \E r \in RetrieveOutcomes(cartIsland.calls[i].cartId) :
          cartIsland' = [cartIsland EXCEPT !.calls[i].pc = "refetched",
                                           !.calls[i].response = r]
    /\ UNCHANGED <<envVars, storage, backendVars, cart, cartLoading,
                   panelVars, initializer, addToCart, caller, checkoutVars>>

\* handleUpdateQuantity after the getCart that follows a delete
handleUpdateQuantity_refetched(i) ==
    /\ cartIsland.calls[i].pc = "refetched"
    /\ LET response == cartIsland.calls[i].response IN
       IF response.ok
       THEN /\ setCart(response.cart)
            /\ cartAnnouncement' = <<"Removed", i>>
            /\ announcer' = Announced
            /\ cartIsland' = Settled(cartIsland, i, FALSE)
       ELSE /\ cartIsland' = Settled(cartIsland, i, TRUE)
            /\ UNCHANGED <<cart, storage, cartAnnouncement, announcer,
                           checkoutVars>>
    /\ UNCHANGED <<storageMode, search, focus, backendVars, cartLoading, cartOpen,
                   cartTrigger, initializer, addToCart, caller>>

\* the backend answers updateLineItem
handleUpdateQuantity_update(i) ==
    /\ cartIsland.calls[i].pc = "updating"
    /\ LET call == cartIsland.calls[i] IN
       \/ /\ cartIsland' = [cartIsland EXCEPT !.calls[i].pc = "updated",
                                              !.calls[i].response = Threw]
          /\ UNCHANGED server
       \/ /\ CanChangeLineItem(call.cartId, i)
          /\ LET updated == WithLineItemQuantity(server[call.cartId], i,
                                                 call.newQuantity) IN
             /\ server' = [server EXCEPT ![call.cartId] = updated]
             /\ cartIsland' = [cartIsland EXCEPT
                   !.calls[i].pc = "updated",
                   !.calls[i].response = Returned(updated)]
    /\ UNCHANGED <<envVars, storage, nextCartId, cart, cartLoading,
                   panelVars, initializer, addToCart, caller, checkoutVars>>

\* handleUpdateQuantity after updateLineItem
handleUpdateQuantity_updated(i) ==
    /\ cartIsland.calls[i].pc = "updated"
    /\ LET response == cartIsland.calls[i].response
           newQuantity == cartIsland.calls[i].newQuantity IN
       IF response.ok
       THEN /\ setCart(response.cart)
            /\ cartAnnouncement' = <<"Updated", i, newQuantity>>
            /\ announcer' = Announced
            /\ cartIsland' = Settled(cartIsland, i, FALSE)
       ELSE /\ cartIsland' = Settled(cartIsland, i, TRUE)
            /\ UNCHANGED <<cart, storage, cartAnnouncement, announcer,
                           checkoutVars>>
    /\ UNCHANGED <<storageMode, search, focus, backendVars, cartLoading, cartOpen,
                   cartTrigger, initializer, addToCart, caller>>

\* the error banner's "Dismiss error" button
dismissError ==
    /\ cartOpen
    /\ cartIsland.error # Null
    /\ cartIsland' = [cartIsland EXCEPT !.error = Null]
    /\ UNCHANGED <<envVars, storage, backendVars, cart, cartLoading,
                   panelVars, initializer, addToCart, caller, checkoutVars>>

\* ---------------------------------------------------------------------------
\* CheckoutForm (address step)
\* ---------------------------------------------------------------------------
\* a milestone enters the log the first time it is reached
Reached(log, m) ==
    IF \E k \in 1..Len(log) : log[k] = m THEN log ELSE Append(log, m)

WithoutError(errors, name) ==
    [n \in DOMAIN errors \ {name} |-> errors[n]]

\* handleChange: the form is rendered while not isSubmitted
handleChange(name, value) ==
    /\ ~checkoutForm.isSubmitted
    /\ checkoutForm.formData[name] # value
    /\ checkoutForm' = [checkoutForm EXCEPT
          !.formData[name] = value,
          !.errors = IF name \in DOMAIN @ THEN WithoutError(@, name) ELSE @]
    /\ UNCHANGED <<envVars, storage, backendVars, cart, cartLoading,
                   panelVars, initializer, productVars, shippingSelector,
                   paymentForm, milestones, completed>>

\* a handleSubmit that sends the form without validating it
handleSubmit_unvalidated ==
    /\ ~checkoutForm.isSubmitted
    /\ ~checkoutForm.isLoading
    /\ checkoutForm' =
          IF cart.id = 0
          THEN [checkoutForm EXCEPT
                   !.apiError =
                       "No cart found. Please add items to your cart first."]
          ELSE [checkoutForm EXCEPT !.apiError = Null, !.isLoading = TRUE,
                                    !.pc = "saving", !.cartId = cart.id]
    /\ UNCHANGED <<envVars, storage, backendVars, cart, cartLoading,
                   panelVars, initializer, productVars, shippingSelector,
                   paymentForm, milestones, completed>>

\* handleSubmit up to its await; the submit button is disabled while isLoading
handleSubmit ==
    /\ ~checkoutForm.isSubmitted
    /\ ~checkoutForm.isLoading
    /\ LET newErrors == validateForm(checkoutForm.formData) IN
       checkoutForm' =
          IF newErrors # NoErrors
          THEN [checkoutForm EXCEPT !.apiError = Null, !.errors = newErrors]
          ELSE IF cart.id = 0
               THEN [checkoutForm EXCEPT
                        !.errors = newErrors,
                        !.apiError =
                          "No cart found. Please add items to your cart first."]
               ELSE [checkoutForm EXCEPT
                        !.errors = newErrors, !.apiError = Null,
                        !.isLoading = TRUE, !.pc = "saving",
                        !.cartId = cart.id]
    /\ UNCHANGED <<envVars, storage, backendVars, cart, cartLoading,
                   panelVars, initializer, productVars, shippingSelector,
                   paymentForm, milestones, completed>>

\* medusa.store.cart.update, .addShippingMethod, .complete and the payment
\* session: the backend refuses a missing or completed cart
CanChangeCart(id) == server[id] # NullCart /\ ~server[id].completed_at

\* the backend answers updateCart
handleSubmit_update ==
    /\ checkoutForm.pc = "saving"
    /\ \/ /\ checkoutForm' = [checkoutForm EXCEPT !.pc = "saved",
                                                  !.response = Threw]
          /\ UNCHANGED server
       \/ /\ CanChangeCart(checkoutForm.cartId)
          /\ LET updated == [server[checkoutForm.cartId] EXCEPT
                                !.shipping_address = TRUE] IN
             /\ server' = [server EXCEPT ![checkoutForm.cartId] = updated]
             /\ checkoutForm' = [checkoutForm EXCEPT
                                    !.pc = "saved",
                                    !.response = Returned(updated)]
    /\ UNCHANGED <<envVars, storage, nextCartId, cart, cartLoading,
                   panelVars, initializer, productVars, shippingSelector,
                   paymentForm, milestones, completed>>

\* handleSubmit after its await
handleSubmit_resume ==
    /\ checkoutForm.pc = "saved"
    /\ LET response == checkoutForm.response IN
       IF response.ok
       THEN LET form == [checkoutForm EXCEPT !.pc = "idle",
                                             !.isSubmitted = TRUE,
                                             !.isLoading = FALSE] IN
            /\ cart' = response.cart
            /\ storage' = setCartStorage(storage, response.cart)
            /\ checkoutForm' = form
            /\ Rendered(shippingSelector, paymentForm, form, response.cart,
                        TRUE)
            /\ milestones' = Reached(milestones, "address")
       ELSE /\ checkoutForm' = [checkoutForm EXCEPT
                 !.pc = "idle",
                 !.apiError =
                   "Failed to save shipping information. Please try again.",
                 !.isLoading = FALSE]
            /\ UNCHANGED <<cart, storage, shippingSelector, paymentForm,
                           milestones>>
    /\ UNCHANGED <<envVars, backendVars, cartLoading, panelVars,
                   initializer, productVars, completed>>

\* "Edit shipping address": shown while isSubmitted and not
\* isShippingSelected; saving: pressed while the selector's handleSelectOption
\* is waiting for the backend
editAddressWhile(saving) ==
    /\ checkoutForm.isSubmitted
    /\ ~checkoutForm.isShippingSelected
    /\ saving = (shippingSelector.select.pc # "idle")
    /\ saving => Cardinality(shippingSelector.orphans) < MaxOrphans
    /\ LET form == [checkoutForm EXCEPT !.isSubmitted = FALSE] IN
       /\ checkoutForm' = form
       /\ Rendered(shippingSelector, paymentForm, form, cart, FALSE)
    /\ UNCHANGED <<envVars, storage, backendVars, cart, cartLoading,
                   panelVars, initializer, productVars, milestones, completed>>

editAddress == editAddressWhile(FALSE)

editAddress_saving == editAddressWhile(TRUE)

\* ---------------------------------------------------------------------------
\* ShippingMethodSelector (shipping step)
\* ---------------------------------------------------------------------------
\* the backend answers listShippingOptions
fetchShippingOptions_list(f) ==
    /\ f \in shippingSelector.fetches
    /\ f.pc = "sent"
    /\ \E r \in {[ok |-> FALSE, options |-> {}],
                 [ok |-> TRUE, options |-> {}],
                 [ok |-> TRUE, options |-> ShipOptions]} :
          shippingSelector' = [shippingSelector EXCEPT
              !.fetches = (@ \ {f}) \cup
                          {[f EXCEPT !.pc = "returned", !.ok = r.ok,
                                     !.options = r.options]}]
    /\ UNCHANGED <<envVars, storage, backendVars, cart, cartLoading,
                   panelVars, initializer, productVars, checkoutForm,
                   paymentForm, milestones, completed>>

\* fetchShippingOptions after its await
fetchShippingOptions_resume(f) ==
    /\ f \in shippingSelector.fetches
    /\ f.pc = "returned"
    /\ shippingSelector' =
          IF f.ok
          THEN [shippingSelector EXCEPT
                   !.shippingOptions = f.options,
                   !.selectedOption =
                       IF f.shipping_methods # Null
                       THEN f.shipping_methods ELSE @,
                   !.isLoading = FALSE,
                   !.fetches = @ \ {f}]
          ELSE [shippingSelector EXCEPT
                   !.error =
                       "Unable to load shipping options. Please try again.",
                   !.isLoading = FALSE,
                   !.fetches = @ \ {f}]
    /\ UNCHANGED <<envVars, storage, backendVars, cart, cartLoading,
                   panelVars, initializer, productVars, checkoutForm,
                   paymentForm, milestones, completed>>

\* the "Try again" button of the load-error view
tryAgain ==
    /\ checkoutForm.isSubmitted
    /\ ~shippingSelector.isLoading
    /\ shippingSelector.error # Null
    /\ shippingSelector.shippingOptions = {}
    /\ shippingSelector' = [shippingSelector EXCEPT !.isLoading = TRUE,
                                                    !.error = Null]
    /\ UNCHANGED <<envVars, storage, backendVars, cart, cartLoading,
                   panelVars, initializer, productVars, checkoutForm,
                   paymentForm, milestones, completed>>

\* the option radios are rendered
OptionsShown ==
    /\ checkoutForm.isSubmitted
    /\ ~shippingSelector.isLoading
    /\ shippingSelector.shippingOptions # {}

\* a handleSelectOption that shows the selection and sends nothing
handleSelectOption_unsent(optionId) ==
    /\ OptionsShown
    /\ optionId \in shippingSelector.shippingOptions
    /\ optionId # shippingSelector.selectedOption
    /\ ~shippingSelector.isSaving
    /\ cart.id # 0
    /\ Cardinality(paymentForm.loads) < MaxLoads
    /\ shippingSelector' = [shippingSelector EXCEPT
          !.selectedOption = optionId,
          !.error = Null]
    /\ UNCHANGED <<envVars, storage, backendVars, cart, cartLoading,
                   panelVars, initializer, productVars, checkoutForm,
                   paymentForm, milestones, completed>>

\* handleSelectOption up to its await: the change event of a radio that is
\* not checked; the radios are disabled while isSaving
handleSelectOption(optionId) ==
    /\ OptionsShown
    /\ optionId \in shippingSelector.shippingOptions
    /\ optionId # shippingSelector.selectedOption
    /\ ~shippingSelector.isSaving
    /\ cart.id # 0
    /\ Cardinality(paymentForm.loads) < MaxLoads
    /\ shippingSelector' = [shippingSelector EXCEPT
          !.selectedOption = optionId,
          !.isSaving = TRUE,
          !.error = Null,
          !.select = [pc |-> "sent", cartId |-> cart.id,
                      optionId |-> optionId, response |-> Threw]]
    /\ UNCHANGED <<envVars, storage, backendVars, cart, cartLoading,
                   panelVars, initializer, productVars, checkoutForm,
                   paymentForm, milestones, completed>>

\* what the backend may answer to addShippingMethod, with the cart it leaves
AddShippingMethodOutcomes(call) ==
    {<<Threw, server[call.cartId]>>} \cup
    (IF CanChangeCart(call.cartId)
     THEN LET updated == [server[call.cartId] EXCEPT
                             !.shipping_methods = call.optionId]
          IN  {<<Returned(updated), updated>>}
     ELSE {})

\* the backend answers addShippingMethod
handleSelectOption_add ==
    /\ shippingSelector.select.pc = "sent"
    /\ \E o \in AddShippingMethodOutcomes(shippingSelector.select) :
          /\ server' = [server EXCEPT ![shippingSelector.select.cartId] = o[2]]
          /\ shippingSelector' = [shippingSelector EXCEPT
                !.select.pc = "returned", !.select.response = o[1]]
    /\ UNCHANGED <<envVars, storage, nextCartId, cart, cartLoading,
                   panelVars, initializer, productVars, checkoutForm,
                   paymentForm, milestones, completed>>

\* handleSelectOption after its await; onComplete is CheckoutForm's
\* setIsShippingSelected(true)
handleSelectOption_resume ==
    /\ shippingSelector.select.pc = "returned"
    /\ LET response == shippingSelector.select.response IN
       IF response.ok
       THEN LET form == [checkoutForm EXCEPT !.isShippingSelected = TRUE]
                sel == [shippingSelector EXCEPT !.isSaving = FALSE,
                                                !.select = NoSelect] IN
            /\ cart' = response.cart
            /\ storage' = setCartStorage(storage, response.cart)
            /\ checkoutForm' = form
            /\ Rendered(sel, paymentForm, form, response.cart, TRUE)
            /\ milestones' = Reached(milestones, "shipping")
       ELSE /\ shippingSelector' = [shippingSelector EXCEPT
                 !.error = "Failed to set shipping method. Please try again.",
                 !.selectedOption = Null,
                 !.isSaving = FALSE,
                 !.select = NoSelect]
            /\ UNCHANGED <<cart, storage, checkoutForm, paymentForm,
                           milestones>>
    /\ UNCHANGED <<envVars, backendVars, cartLoading, panelVars,
                   initializer, productVars, completed>>

\* the backend answers the addShippingMethod of an unmounted selector
orphan_add(call) ==
    /\ call \in shippingSelector.orphans
    /\ call.pc = "sent"
    /\ \E o \in AddShippingMethodOutcomes(call) :
          /\ server' = [server EXCEPT ![call.cartId] = o[2]]
          /\ shippingSelector' = [shippingSelector EXCEPT
                !.orphans = (@ \ {call}) \cup
                            {[call EXCEPT !.pc = "returned",
                                          !.response = o[1]]}]
    /\ UNCHANGED <<envVars, storage, nextCartId, cart, cartLoading,
                   panelVars, initializer, productVars, checkoutForm,
                   paymentForm, milestones, completed>>

\* handleSelectOption of an unmounted selector after its await: its own
\* setState calls do nothing
orphan_resume(call) ==
    /\ call \in shippingSelector.orphans
    /\ call.pc = "returned"
    /\ LET sel == [shippingSelector EXCEPT !.orphans = @ \ {call}] IN
       IF call.response.ok
       THEN LET form == [checkoutForm EXCEPT !.isShippingSelected = TRUE] IN
            /\ cart' = call.response.cart
            /\ storage' = setCartStorage(storage, call.response.cart)
            /\ checkoutForm' = form
            /\ Rendered(sel, paymentForm, form, call.response.cart, TRUE)
            /\ milestones' = Reached(milestones, "shipping")
       ELSE /\ shippingSelector' = sel
            /\ UNCHANGED <<cart, storage, checkoutForm, paymentForm,
                           milestones>>
    /\ UNCHANGED <<envVars, backendVars, cartLoading, panelVars,
                   initializer, productVars, completed>>

\* ---------------------------------------------------------------------------
\* PaymentForm (payment step)
\* ---------------------------------------------------------------------------
\* the backend answers listPaymentProviders
loadProviders_list(l) ==
    /\ l \in paymentForm.loads
    /\ l.pc = "sent"
    /\ \E r \in {[ok |-> FALSE, providers |-> {}],
                 [ok |-> TRUE, providers |-> {}],
                 [ok |-> TRUE, providers |-> Providers]} :
          paymentForm' = [paymentForm EXCEPT
              !.loads = (@ \ {l}) \cup
                        {[l EXCEPT !.pc = "returned", !.ok = r.ok,
                                   !.providers = r.providers]}]
    /\ UNCHANGED <<envVars, storage, backendVars, cart, cartLoading,
                   panelVars, initializer, productVars, checkoutForm,
                   shippingSelector, milestones, completed>>

\* loadProviders after its await: a pending payment session of the cart the
\* effect ran for is selected
loadProviders_resume(l) ==
    /\ l \in paymentForm.loads
    /\ l.pc = "returned"
    /\ IF l.ok
       THEN /\ paymentForm' = [paymentForm EXCEPT
                  !.providers = l.providers,
                  !.selectedProvider =
                      IF l.payment_session # Null
                      THEN l.payment_session ELSE @,
                  !.isLoading = FALSE,
                  !.loads = @ \ {l}]
            /\ milestones' = IF l.payment_session # Null
                             THEN Reached(milestones, "payment")
                             ELSE milestones
       ELSE /\ paymentForm' = [paymentForm EXCEPT
                  !.error = "Failed to load payment options.",
                  !.isLoading = FALSE,
                  !.loads = @ \ {l}]
            /\ UNCHANGED milestones
    /\ UNCHANGED <<envVars, storage, backendVars, cart, cartLoading,
                   panelVars, initializer, productVars, checkoutForm,
                   shippingSelector, completed>>

\* the provider radios and the place-order button are rendered
PaymentShown ==
    /\ PaymentMounted(checkoutForm)
    /\ ~paymentForm.isLoading
    /\ paymentForm.providers # {}
    /\ cart # NullCart

\* handleSelectPayment up to its await: the change event of a radio that is
\* not checked; the radios are disabled while isProcessing
handleSelectPayment(providerId) ==
    /\ PaymentShown
    /\ providerId \in paymentForm.providers
    /\ providerId # paymentForm.selectedProvider
    /\ ~paymentForm.isProcessing
    /\ paymentForm' = [paymentForm EXCEPT
          !.selectedProvider = providerId,
          !.error = Null,
          !.isProcessing = TRUE,
          !.call = [pc |-> "sent", kind |-> "select", cartId |-> cart.id,
                    providerId |-> providerId, response |-> Threw]]
    /\ milestones' = Reached(milestones, "payment")
    /\ UNCHANGED <<envVars, storage, backendVars, cart, cartLoading,
                   panelVars, initializer, productVars, checkoutForm,
                   shippingSelector, completed>>

\* the backend answers initiatePaymentSession
handleSelectPayment_initiate ==
    /\ paymentForm.call.pc = "sent"
    /\ paymentForm.call.kind = "select"
    /\ LET call == paymentForm.call IN
       \/ /\ paymentForm' = [paymentForm EXCEPT !.call.pc = "returned",
                                                !.call.response = Threw]
          /\ UNCHANGED server
       \/ /\ CanChangeCart(call.cartId)
          /\ LET updated == [server[call.cartId] EXCEPT
                                !.payment_session = call.providerId] IN
             /\ server' = [server EXCEPT ![call.cartId] = updated]
             /\ paymentForm' = [paymentForm EXCEPT
                                   !.call.pc = "returned",
                                   !.call.response = Returned(updated)]
    /\ UNCHANGED <<envVars, storage, nextCartId, cart, cartLoading,
                   panelVars, initializer, productVars, checkoutForm,
                   shippingSelector, milestones, completed>>

\* a handleSelectPayment that hands the returned cart to the store
handleSelectPayment_resume_storing ==
    /\ paymentForm.call.pc = "returned"
    /\ paymentForm.call.kind = "select"
    /\ IF paymentForm.call.response.ok
       THEN /\ cart' = paymentForm.call.response.cart
            /\ paymentForm' = [paymentForm EXCEPT !.isProcessing = FALSE,
                                                  !.call = NoPaymentCall]
       ELSE /\ cart' = cart
            /\ paymentForm' = [paymentForm EXCEPT
                   !.error =
                     "Failed to initialize payment method. Please try again.",
                   !.selectedProvider = Null,
                   !.isProcessing = FALSE,
                   !.call = NoPaymentCall]
    /\ UNCHANGED <<envVars, storage, backendVars, cartLoading,
                   panelVars, initializer, productVars, checkoutForm,
                   shippingSelector, milestones, completed>>

\* handleSelectPayment after its await: the response is not used
handleSelectPayment_resume ==
    /\ paymentForm.call.pc = "returned"
    /\ paymentForm.call.kind = "select"
    /\ paymentForm' =
          IF paymentForm.call.response.ok
          THEN [paymentForm EXCEPT !.isProcessing = FALSE,
                                   !.call = NoPaymentCall]
          ELSE [paymentForm EXCEPT
                   !.error =
                     "Failed to initialize payment method. Please try again.",
                   !.selectedProvider = Null,
                   !.isProcessing = FALSE,
                   !.call = NoPaymentCall]
    /\ UNCHANGED <<envVars, storage, backendVars, cart, cartLoading,
                   panelVars, initializer, productVars, checkoutForm,
                   shippingSelector, milestones, completed>>

\* a place-order button that is not disabled while isProcessing
handlePlaceOrder_enabled ==
    /\ PaymentShown
    /\ paymentForm.selectedProvider # Null
    /\ cart.id # 0
    /\ paymentForm' = [paymentForm EXCEPT
          !.isProcessing = TRUE,
          !.error = Null,
          !.call = [pc |-> "sent", kind |-> "place", cartId |-> cart.id,
                    providerId |-> Null, response |-> Threw]]
    /\ UNCHANGED <<envVars, storage, backendVars, cart, cartLoading,
                   panelVars, initializer, productVars, checkoutForm,
                   shippingSelector, milestones, completed>>

\* handlePlaceOrder up to its await; the button is disabled without a
\* selected provider and while isProcessing
handlePlaceOrder ==
    /\ PaymentShown
    /\ paymentForm.selectedProvider # Null
    /\ ~paymentForm.isProcessing
    /\ cart.id # 0
    /\ paymentForm' = [paymentForm EXCEPT
          !.isProcessing = TRUE,
          !.error = Null,
          !.call = [pc |-> "sent", kind |-> "place", cartId |-> cart.id,
                    providerId |-> Null, response |-> Threw]]
    /\ UNCHANGED <<envVars, storage, backendVars, cart, cartLoading,
                   panelVars, initializer, productVars, checkoutForm,
                   shippingSelector, milestones, completed>>

\* the backend answers completeCart: it throws, returns the cart (payment
\* not complete) or, for a cart with a payment session, places the order
handlePlaceOrder_complete ==
    /\ paymentForm.call.pc = "sent"
    /\ paymentForm.call.kind = "place"
    /\ LET call == paymentForm.call IN
       \/ /\ paymentForm' = [paymentForm EXCEPT !.call.pc = "returned",
                                                !.call.response = Threw]
          /\ UNCHANGED server
       \/ /\ CanChangeCart(call.cartId)
          /\ paymentForm' = [paymentForm EXCEPT
                !.call.pc = "returned",
                !.call.response = Returned(server[call.cartId])]
          /\ UNCHANGED server
       \/ /\ CanChangeCart(call.cartId)
          /\ server[call.cartId].payment_session # Null
          /\ LET placed == [server[call.cartId] EXCEPT !.completed_at = TRUE]
             IN
             /\ server' = [server EXCEPT ![call.cartId] = placed]
             /\ paymentForm' = [paymentForm EXCEPT
                   !.call.pc = "returned",
                   !.call.response = [ok |-> TRUE, cart |-> placed,
                                      type |-> "order"]]
    /\ UNCHANGED <<envVars, storage, nextCartId, cart, cartLoading,
                   panelVars, initializer, productVars, checkoutForm,
                   shippingSelector, milestones, completed>>

\* a handlePlaceOrder that drops the selection when it settles
PlaceOrderSettled_deselecting(pay, message) ==
    [pay EXCEPT !.error = IF message = Null THEN @ ELSE message,
                !.selectedProvider = Null,
                !.isProcessing = FALSE,
                !.call = NoPaymentCall]

\* a handlePlaceOrder that sends completeCart again when it settles
PlaceOrderSettled_resending(pay, message) ==
    [pay EXCEPT !.error = IF message = Null THEN @ ELSE message,
                !.call.pc = "sent"]

\* the finally block of handlePlaceOrder, with the message the handler set
PlaceOrderSettled(pay, message) ==
    [pay EXCEPT !.error = IF message = Null THEN @ ELSE message,
                !.isProcessing = FALSE,
                !.call = NoPaymentCall]

\* handlePlaceOrder after its await.  On an order it calls setCart(null),
\* then localStorage.removeItem("cart_id") (which throws into the catch block
\* when localStorage is not accessible), then onComplete(order).
handlePlaceOrder_resume ==
    /\ paymentForm.call.pc = "returned"
    /\ paymentForm.call.kind = "place"
    /\ LET response == paymentForm.call.response IN
       IF response.ok /\ response.type = "order"
       THEN /\ cart' = NullCart
            /\ IF storageMode = "denied"
               THEN /\ storage' = setCartStorage(storage, NullCart)
                    /\ Rendered(shippingSelector,
                                PlaceOrderSettled(paymentForm,
                                    "Failed to place order. Please try again."),
                                checkoutForm, NullCart, TRUE)
                    /\ UNCHANGED completed
               ELSE /\ storage' = [setCartStorage(storage, NullCart)
                                      EXCEPT !["cart_id"] = 0]
                    /\ Rendered(shippingSelector,
                                PlaceOrderSettled(paymentForm, Null),
                                checkoutForm, NullCart, TRUE)
                    /\ completed' = completed \cup {response.cart.id}
       ELSE /\ paymentForm' =
                  PlaceOrderSettled(paymentForm,
                      IF response.ok
                      THEN "Payment incomplete. Please check details."
                      ELSE "Failed to place order. Please try again.")
            /\ UNCHANGED <<cart, storage, shippingSelector, completed>>
    /\ UNCHANGED <<envVars, backendVars, cartLoading, panelVars,
                   initializer, productVars, checkoutForm, milestones>>

\* ---------------------------------------------------------------------------
\* Direct calls of the store's exported functions
\* ---------------------------------------------------------------------------
\* the carts a caller may hand to setCart
CallerCarts ==
    {[NewCart(id, 1) EXCEPT !.items = it] :
        id \in CartIds, it \in {NoItems, [i \in {Variant} |-> 1]}}
        \cup {NullCart}

\* a caller is about to run setCart(c) or clearCart()
directCall ==
    /\ caller = Idle
    /\ \/ \E c \in CallerCarts : caller' = [op |-> "setCart", cart |-> c]
       \/ caller' = [op |-> "clearCart", cart |-> NullCart]
    /\ UNCHANGED <<envVars, storage, backendVars, cart, cartLoading,
                   panelVars, initializer, addToCart, cartIsland, checkoutVars>>

call_setCart ==
    /\ caller.op = "setCart"
    /\ setCart(caller.cart)
    /\ caller' = Idle
    /\ UNCHANGED <<envVars, backendVars, cartLoading, panelVars,
                   initializer, addToCart, cartIsland>>

call_clearCart ==
    /\ caller.op = "clearCart"
    /\ clearCart
    /\ caller' = Idle
    /\ UNCHANGED <<envVars, backendVars, cartLoading, panelVars,
                   initializer, addToCart, cartIsland>>

\* ---------------------------------------------------------------------------
\* Search island
\* ---------------------------------------------------------------------------
\* setTimeout(..., 300)
DebounceDelay == 300

Shirt == <<"s", "h", "i", "r", "t">>

\* what the user can have in the search box
SearchInputs == {<<>>, <<" ">>, Shirt, Shirt \o <<"s">>}

\* a timer runs for delay ms at least
Elapsed(ms, delay) == IF ms + TickMs > delay THEN delay ELSE ms + TickMs

\* the debounce effect up to setTimeout; n numbers the values the box has
\* held (0: the value at mount)
Debounced(n, value) == [pending |-> TRUE, n |-> n, query |-> value, ms |-> 0]

NoTimer == [pending |-> FALSE, n |-> 0, query |-> <<>>, ms |-> 0]

\* a Search component after its first render and effect; typed and issued
\* log the values typed (with the time since the value before) and the
\* queries sent to the backend (with the time the value had been in the box)
initialSearch ==
    [query |-> <<>>, results |-> <<>>, isLoading |-> FALSE, isOpen |-> FALSE,
     timer |-> Debounced(0, <<>>), calls |-> {}, sinceInput |-> 0,
     typed |-> <<>>, issued |-> <<>>]

\* a debounce effect that lets the new timer run on from the old one
handleInput_continuing(value) ==
    /\ value # search.query
    /\ Len(search.typed) < MaxInputs
    /\ search' = [search EXCEPT
          !.query = value,
          !.timer = [Debounced(Len(search.typed) + 1, value)
                        EXCEPT !.ms = search.timer.ms],
          !.sinceInput = 0,
          !.typed = Append(@, [value |-> value, gap |-> search.sinceInput])]
    /\ UNCHANGED <<storageMode, focus, storage, backendVars, cart, cartLoading,
                   panelVars, initializer, productVars, checkoutVars,
                   announcer>>

\* onInput: setQuery, and the effect of the re-render (clearTimeout of the
\* pending timer, then a new setTimeout)
handleInput(value) ==
    /\ value # search.query
    /\ Len(search.typed) < MaxInputs
    /\ search' = [search EXCEPT
          !.query = value,
          !.timer = Debounced(Len(search.typed) + 1, value),
          !.sinceInput = 0,
          !.typed = Append(@, [value |-> value, gap |-> search.sinceInput])]
    /\ UNCHANGED <<storageMode, focus, storage, backendVars, cart, cartLoading,
                   panelVars, initializer, productVars, checkoutVars,
                   announcer>>

\* the timer callback up to its await, or to its end for a blank query
searchTimeout ==
    /\ search.timer.pending
    /\ search.timer.ms >= DebounceDelay
    /\ LET t == search.timer IN
       search' =
          IF Len(trim(t.query)) > 0
          THEN [search EXCEPT
                   !.isLoading = TRUE,
                   !.timer = NoTimer,
                   !.calls = @ \cup {[n |-> t.n, q |-> t.query, pc |-> "sent",
                                      ok |-> FALSE]},
                   !.issued = Append(@, [n |-> t.n, q |-> t.query,
                                         waited |-> search.sinceInput])]
          ELSE [search EXCEPT !.results = <<>>, !.isOpen = FALSE,
                              !.timer = NoTimer]
    /\ UNCHANGED <<storageMode, focus, storage, backendVars, cart, cartLoading,
                   panelVars, initializer, productVars, checkoutVars,
                   announcer>>

\* the backend answers listProducts
searchTimeout_list(call) ==
    /\ call \in search.calls
    /\ call.pc = "sent"
    /\ \E ok \in BOOLEAN :
          search' = [search EXCEPT
              !.calls = (@ \ {call}) \cup
                        {[call EXCEPT !.pc = "returned", !.ok = ok]}]
    /\ UNCHANGED <<storageMode, focus, storage, backendVars, cart, cartLoading,
                   panelVars, initializer, productVars, checkoutVars,
                   announcer>>

\* the timer callback after its await; the products found for a query are
\* named by the query
searchTimeout_resume(call) ==
    /\ call \in search.calls
    /\ call.pc = "returned"
    /\ search' =
          IF call.ok
          THEN [search EXCEPT !.results = <<"products", call.q>>,
                              !.isOpen = TRUE,
                              !.isLoading = FALSE,
                              !.calls = @ \ {call}]
          ELSE [search EXCEPT !.results = <<>>,
                              !.isLoading = FALSE,
                              !.calls = @ \ {call}]
    /\ UNCHANGED <<storageMode, focus, storage, backendVars, cart, cartLoading,
                   panelVars, initializer, productVars, checkoutVars,
                   announcer>>

\* ---------------------------------------------------------------------------
\* CartAnnouncer
\* ---------------------------------------------------------------------------
\* the effect of CartAnnouncer after $cartAnnouncement changed: the cleanup
\* of the last run (clearTimeout), then setMessage and setTimeout when there
\* is an announcement
CartAnnouncer_effect ==
    /\ announcer.announcement # cartAnnouncement
    /\ announcer' =
          IF cartAnnouncement # NoAnnouncement
          THEN [announcer EXCEPT !.announcement = cartAnnouncement,
                                 !.message = cartAnnouncement,
                                 !.timer = [pending |-> TRUE, ms |-> 0]]
          ELSE [announcer EXCEPT !.announcement = cartAnnouncement,
                                 !.timer = [pending |-> FALSE, ms |-> 0]]
    /\ UNCHANGED <<storageMode, focus, storage, backendVars, cart, cartLoading,
                   panelVars, initializer, productVars, checkoutVars, search>>

\* the timer callback: $cartAnnouncement.set(null)
announcerTimeout ==
    /\ announcer.timer.pending
    /\ announcer.timer.ms >= AnnouncementDelay
    /\ cartAnnouncement' = NoAnnouncement
    /\ announcer' = [announcer EXCEPT !.timer = [pending |-> FALSE, ms |-> 0],
                                      !.placedEarly = FALSE]
    /\ UNCHANGED <<storageMode, focus, storage, backendVars, cart, cartLoading,
                   cartOpen, cartTrigger, initializer, productVars,
                   checkoutVars, search>>

\* ---------------------------------------------------------------------------
\* Time
\* ---------------------------------------------------------------------------
\* TickMs pass: every pending timer comes closer to its delay.  Renders and
\* effects take less than that, so none is outstanding when time passes.
Tick ==
    /\ announcer.announcement = cartAnnouncement
    /\ search' = [search EXCEPT
          !.timer.ms = IF search.timer.pending
                       THEN Elapsed(@, DebounceDelay) ELSE @,
          !.sinceInput = Elapsed(@, DebounceDelay)]
    /\ announcer' = [announcer EXCEPT
          !.timer.ms = IF announcer.timer.pending
                       THEN Elapsed(@, AnnouncementDelay) ELSE @,
          !.placedMs = Elapsed(@, AnnouncementDelay)]
    /\ <<search', announcer'>> # <<search, announcer>>
    /\ UNCHANGED <<storageMode, focus, storage, backendVars, cart, cartLoading,
                   panelVars, initializer, productVars, checkoutVars>>

\* the islands of every page after their first render
InitIslands ==
    /\ search = initialSearch
    /\ announcer = initialAnnouncer
    /\ focus = initialFocus

\* ---------------------------------------------------------------------------
\* Specifications
\* ---------------------------------------------------------------------------
\* the persisted cart identifier (0: no entry)
Persisted == storage[CART_ID_KEY]

InitializerSteps ==
    \/ CartInitializer
    \/ initializeCartDirect
    \/ initializeCart_fetch
    \/ initializeCart_resume

AddToCartSteps ==
    \/ handleAddToCart
    \/ handleAddToCart_create
    \/ handleAddToCart_created
    \/ handleAddToCart_add
    \/ handleAddToCart_added

PanelSteps ==
    \/ handleClick
    \/ closeCart

CartIslandSteps ==
    \/ dismissError
    \/ \E i \in ItemIds : decrease(i)
    \/ \E i \in ItemIds : increase(i)
    \/ \E i \in ItemIds : handleRemoveItem(i)
    \/ \E i \in ItemIds : handleUpdateQuantity_remove(i)
    \/ \E i \in ItemIds : handleUpdateQuantity_removed(i)
    \/ \E i \in ItemIds : handleUpdateQuantity_refetch(i)
    \/ \E i \in ItemIds : handleUpdateQuantity_refetched(i)
    \/ \E i \in ItemIds : handleUpdateQuantity_update(i)
    \/ \E i \in ItemIds : handleUpdateQuantity_updated(i)

\* A page load of a product page: the store, the initializer, AddToCart and
\* the cart panel
InitStorePage ==
    InitEnv /\ InitStore /\ InitProductPage /\ InitCheckout /\ InitIslands

NextStore == InitializerSteps \/ AddToCartSteps \/ PanelSteps

SpecStore == InitStorePage /\ [][NextStore]_vars

\* A page load with the cart island in use
NextCart == InitializerSteps \/ PanelSteps \/ CartIslandSteps

\* the cart panel does not read the region of the cart
InitCartPage ==
    /\ InitStorePage
    /\ storageMode = "ok"
    /\ \A c \in CartIds : server[c] = NullCart \/ server[c].region_id = 1

SpecCart == InitCartPage /\ [][NextCart]_vars

\* A page load of the checkout page: the persisted cart, if any, is as an
\* earlier visit of the storefront left it (nothing done, address saved,
\* shipping method added, payment session started, order placed)
CheckoutCarts ==
    {[id |-> 1, items |-> [i \in {Variant} |-> 1], completed_at |-> p[1],
      region_id |-> rg, shipping_address |-> p[2], shipping_methods |-> p[3],
      payment_session |-> p[4]] :
        rg \in Regions,
        p \in {<<FALSE, FALSE, Null, Null>>, <<FALSE, TRUE, Null, Null>>,
               <<FALSE, TRUE, "so1", Null>>, <<FALSE, TRUE, "so1", "pp1">>,
               <<TRUE, TRUE, "so1", "pp1">>}}

\* localStorage of a checkout page load.  The checkout writes no identifier
\* but the persisted one, so a full localStorage behaves like a usable one.
InitCheckoutEnv ==
    /\ storageMode \in {"ok", "denied"}
    /\ \/ /\ nextCartId = 1
          /\ storage = [k \in StorageKeys |-> 0]
          /\ server = [c \in CartIds |-> NullCart]
       \/ /\ nextCartId = 2
          /\ storage = [k \in StorageKeys |-> IF k = CART_ID_KEY THEN 1 ELSE 0]
          /\ \E c1 \in CheckoutCarts \cup {NullCart} :
                server = [c \in CartIds |-> IF c = 1 THEN c1 ELSE NullCart]

InitCheckoutPage ==
    /\ InitCheckoutEnv /\ InitStore /\ InitProductPage /\ InitCheckout
    /\ InitIslands

CheckoutInitializerSteps ==
    \/ CartInitializer
    \/ initializeCart_fetch
    \/ initializeCart_resume

AddressSteps ==
    \/ handleSubmit
    \/ handleSubmit_update
    \/ handleSubmit_resume
    \/ editAddress

ShippingSteps ==
    \/ \E f \in shippingSelector.fetches : fetchShippingOptions_list(f)
    \/ \E f \in shippingSelector.fetches : fetchShippingOptions_resume(f)
    \/ tryAgain
    \/ \E optionId \in ShipOptions : handleSelectOption(optionId)
    \/ handleSelectOption_add
    \/ handleSelectOption_resume

OrphanSteps ==
    \/ editAddress_saving
    \/ \E call \in shippingSelector.orphans : orphan_add(call)
    \/ \E call \in shippingSelector.orphans : orphan_resume(call)

PaymentSteps ==
    \/ \E l \in paymentForm.loads : loadProviders_list(l)
    \/ \E l \in paymentForm.loads : loadProviders_resume(l)
    \/ \E providerId \in Providers : handleSelectPayment(providerId)
    \/ handleSelectPayment_initiate
    \/ handleSelectPayment_resume
    \/ handlePlaceOrder
    \/ handlePlaceOrder_complete
    \/ handlePlaceOrder_resume

\* The address step, with everything the user can type
NextAddress ==
    \/ CheckoutInitializerSteps
    \/ \E name \in Fields : \E value \in FieldValues(name) :
          handleChange(name, value)
    \/ AddressSteps

\* the address step reads neither the region nor the payment session of
\* the persisted cart
InitAddressPage ==
    /\ InitCheckoutPage
    /\ storageMode = "ok"
    /\ \A c \in CartIds :
          /\ server[c].payment_session = Null
          /\ server[c] = NullCart \/ server[c].region_id = 1

SpecAddress == InitAddressPage /\ [][NextAddress]_vars

\* The three checkout steps, for a user who fills the form in with accepted
\* values and does not press Edit while a shipping method is being saved
NextCheckout ==
    \/ CheckoutInitializerSteps
    \/ \E name \in Fields : \E value \in AcceptedValues(name) :
          handleChange(name, value)
    \/ AddressSteps
    \/ ShippingSteps
    \/ PaymentSteps

SpecCheckout == InitCheckoutPage /\ [][NextCheckout]_vars

\* The address and shipping steps, with Edit pressed at any time
NextEdit ==
    \/ CheckoutInitializerSteps
    \/ \E name \in Fields : \E value \in AcceptedValues(name) :
          handleChange(name, value)
    \/ AddressSteps
    \/ ShippingSteps
    \/ OrphanSteps

SpecEdit == InitAddressPage /\ [][NextEdit]_vars

\* The address and shipping steps as they are scheduled: the effects run, the
\* backend answers every request and every handler resumes after its await;
\* what the user does (typing, submitting, Edit, picking an option, "Try
\* again") is never forced
ShippingFairness ==
    /\ WF_vars(CartInitializer)
    /\ WF_vars(initializeCart_fetch)
    /\ WF_vars(initializeCart_resume)
    /\ WF_vars(handleSubmit_update)
    /\ WF_vars(handleSubmit_resume)
    /\ WF_vars(\E f \in shippingSelector.fetches :
                  fetchShippingOptions_list(f))
    /\ WF_vars(\E f \in shippingSelector.fetches :
                  fetchShippingOptions_resume(f))
    /\ WF_vars(handleSelectOption_add)
    /\ WF_vars(handleSelectOption_resume)
    /\ WF_vars(\E call \in shippingSelector.orphans : orphan_add(call))
    /\ WF_vars(\E call \in shippingSelector.orphans : orphan_resume(call))

SpecShipping == InitAddressPage /\ [][NextEdit]_vars /\ ShippingFairness

\* The three checkout steps as they are scheduled: the steps of
\* ShippingFairness without the orphaned calls, and the backend answers and
\* the resumptions of the payment step
PaymentFairness ==
    /\ WF_vars(CartInitializer)
    /\ WF_vars(initializeCart_fetch)
    /\ WF_vars(initializeCart_resume)
    /\ WF_vars(handleSubmit_update)
    /\ WF_vars(handleSubmit_resume)
    /\ WF_vars(\E f \in shippingSelector.fetches :
                  fetchShippingOptions_list(f))
    /\ WF_vars(\E f \in shippingSelector.fetches :
                  fetchShippingOptions_resume(f))
    /\ WF_vars(handleSelectOption_add)
    /\ WF_vars(handleSelectOption_resume)
    /\ WF_vars(\E l \in paymentForm.loads : loadProviders_list(l))
    /\ WF_vars(\E l \in paymentForm.loads : loadProviders_resume(l))
    /\ WF_vars(handleSelectPayment_initiate)
    /\ WF_vars(handleSelectPayment_resume)
    /\ WF_vars(handlePlaceOrder_complete)
    /\ WF_vars(handlePlaceOrder_resume)

SpecPayment == InitCheckoutPage /\ [][NextCheckout]_vars /\ PaymentFairness

\* A page with the search box, for a visitor without a cart
SearchSteps ==
    \/ \E value \in SearchInputs : handleInput(value)
    \/ searchTimeout
    \/ \E call \in search.calls : searchTimeout_list(call)
    \/ \E call \in search.calls : searchTimeout_resume(call)

InitSearchPage == InitCartPage /\ Persisted = 0

NextSearch == SearchSteps \/ Tick

SpecSearch == InitSearchPage /\ [][NextSearch]_vars

\* A product page with the cart panel and the CartAnnouncer, as time passes
AnnouncerSteps ==
    \/ CartAnnouncer_effect
    \/ announcerTimeout

NextAnnounce ==
    \/ AddToCartSteps
    \/ PanelSteps
    \/ AnnouncerSteps
    \/ Tick

SpecAnnounce == InitSearchPage /\ [][NextAnnounce]_vars

\* The store's functions called directly, with the initializer running
NextApi ==
    \/ directCall
    \/ call_setCart
    \/ call_clearCart
    \/ InitializerSteps

SpecApi == InitStorePage /\ [][NextApi]_vars

\* ---------------------------------------------------------------------------
\* Properties
\* ---------------------------------------------------------------------------
\* the initializeCart call resumes after its fetch in this step
InitializerResumes == initializer.pc = "fetched" /\ initializer'.pc = "done"

\* C3 (as stated): setCart with a cart that has an identifier always leaves
\* the persisted identifier equal to that identifier; setCart(null) empties
\* the snapshot and leaves the persisted identifier alone; the persisted
\* identifier is removed only by clearCart and by initializeCart's discard
\* paths.
C3_SetCartAlwaysPersists ==
    [][/\ (caller.op = "setCart" /\ caller' = Idle) =>
            /\ cart' = caller.cart
            /\ IF caller.cart.id # 0
               THEN Persisted' = caller.cart.id
               ELSE storage' = storage
       /\ (Persisted # 0 /\ Persisted' = 0) =>
            (caller.op = "clearCart" \/ InitializerResumes)]_vars

\* C3 (amended): setCart with a cart that has an identifier leaves the
\* persisted identifier equal to that identifier when localStorage accepts
\* the write, and leaves localStorage as it was when the write throws;
\* setCart(null) empties the snapshot and leaves the persisted identifier
\* alone; the persisted identifier is removed only by clearCart and by
\* initializeCart's discard paths.
C3_SetCartPersistsWhenWritable ==
    [][/\ (caller.op = "setCart" /\ caller' = Idle) =>
            /\ cart' = caller.cart
            /\ IF caller.cart.id # 0 /\ storageMode = "ok"
               THEN Persisted' = caller.cart.id
               ELSE storage' = storage
       /\ (Persisted # 0 /\ Persisted' = 0) =>
            (caller.op = "clearCart" \/ InitializerResumes)]_vars

\* setCart has run with the second cart, then setCart(null): the snapshot is
\* empty and the second cart's identifier is still persisted
C3_Witness ==
    /\ caller = Idle
    /\ cart = NullCart
    /\ Persisted = 2

\* C4: when initializeCart's fetch returns a completed cart, initializeCart
\* returns null, the snapshot is not replaced by that cart and the persisted
\* identifier is removed.
C4_CompletedCartDiscarded ==
    [][(/\ InitializerResumes
        /\ initializer.response.ok
        /\ initializer.response.cart.completed_at) =>
            /\ initializer'.result = 0
            /\ cart' = cart
            /\ cart' # initializer.response.cart
            /\ Persisted' = 0]_vars

C4_Witness ==
    /\ initializer.pc = "done"
    /\ initializer.storedCartId # 0
    /\ initializer.response.ok
    /\ initializer.response.cart.completed_at
    /\ initializer.result = 0
    /\ cart = NullCart
    /\ Persisted = 0

\* every error message an island shows
ErrorStates ==
    <<addToCart.error, cartIsland.error, checkoutForm.apiError,
      checkoutForm.errors, shippingSelector.error, paymentForm.error>>

\* C5: when initializeCart's fetch fails (throws, or returns null as
\* CartInitializer's wrapper does), the persisted identifier is removed, the
\* snapshot is left as it was (a store without a cart stays without one),
\* initializeCart returns null and no island's error state changes.
C5_FetchFailureDiscards ==
    [][(InitializerResumes /\ ~initializer.response.ok) =>
            /\ Persisted' = 0
            /\ cart' = cart
            /\ initializer'.result = 0
            /\ ErrorStates' = ErrorStates]_vars

C5_Witness ==
    /\ initializer.pc = "done"
    /\ initializer.storedCartId # 0
    /\ ~initializer.response.ok
    /\ initializer.result = 0
    /\ cart = NullCart
    /\ Persisted = 0
    /\ addToCart.error = Null

\* the carts carried by backend responses that wait for their handler
ReturnedCarts ==
    {initializer.response.cart : x \in
        {y \in {1} : initializer.pc = "fetched" /\ initializer.response.ok}}
    \cup {addToCart.response.cart : x \in
        {y \in {1} : addToCart.pc \in {"created", "added"}
                     /\ addToCart.response.ok}}
    \cup {cartIsland.calls[i].response.cart : i \in
        {j \in ItemIds : cartIsland.calls[j].pc \in {"refetched", "updated"}
                         /\ cartIsland.calls[j].response.ok}}
    \cup {checkoutForm.response.cart : x \in
        {y \in {1} : checkoutForm.pc = "saved" /\ checkoutForm.response.ok}}
    \cup {call.response.cart : call \in
        {k \in shippingSelector.orphans \cup {shippingSelector.select} :
            k.pc = "returned" /\ k.response.ok}}

\* C6: whenever the snapshot changes it becomes null or the whole cart carried
\* by one backend response; no step changes fields of the snapshot.
C6_SnapshotReplacedWholesale ==
    [][cart' # cart => (cart' = NullCart \/ cart' \in ReturnedCarts)]_vars

C6_Witness ==
    /\ cart # NullCart
    /\ "a" \in DOMAIN cart.items
    /\ cart.items["a"] = 2
    /\ cartAnnouncement = <<"Updated", "a", 2>>
    /\ cart = server[cart.id]

\* one element per unit of every line item
Units(items) ==
    {u \in (DOMAIN items) \X (1..MaxQty) : u[2] <= items[u[1]]}

\* C7: the item count of the store's cart is the sum of its line items'
\* quantities, and 0 when the store holds no cart.
C7_CountIsSumOfQuantities ==
    /\ cartCount(cart) = Cardinality(Units(cart.items))
    /\ (cart = NullCart => cartCount(cart) = 0)

C7_Witness ==
    /\ DOMAIN cart.items = ItemIds
    /\ cart.items["a"] = 2
    /\ cart.items["b"] = 1
    /\ cartCount(cart) = 3

\* C8: a quantity change to 0 is sent as a delete, never as an update with
\* quantity 0, and no line item of the snapshot has quantity 0.
C8_ZeroQuantityDeletes ==
    /\ \A i \in ItemIds :
          LET c == cartIsland.calls[i] IN
          /\ c.pc \in {"updating", "updated"} => c.newQuantity >= 1
          /\ (c.pc # "idle" /\ c.newQuantity = 0) =>
                c.pc \in {"removing", "removed", "refetching", "refetched"}
    /\ \A i \in DOMAIN cart.items : cart.items[i] >= 1

C8_Witness ==
    /\ cart # NullCart
    /\ cartAnnouncement = <<"Removed", "a">>
    /\ "a" \notin DOMAIN cart.items
    /\ cartIsland.calls["a"].pc = "idle"

\* handlePlaceOrder resumes after completeCart in this step
PlaceOrderResumes ==
    /\ paymentForm.call.kind = "place"
    /\ paymentForm.call.pc = "returned"
    /\ paymentForm'.call.pc = "idle"

\* completeCart answered with an order
OrderReturned ==
    paymentForm.call.response.ok /\ paymentForm.call.response.type = "order"

\* C1: when completeCart returns an order, afterwards the store holds no
\* cart, the persisted cart identifier is absent and onComplete has been
\* invoked with the order.
C1_OrderClearsCartAndIdentifier ==
    [][(PlaceOrderResumes /\ OrderReturned) =>
            /\ cart' = NullCart
            /\ Persisted' = 0
            /\ paymentForm.call.response.cart.id \in completed']_vars

\* C2: when completeCart returns something else than an order, or throws,
\* the snapshot and the selected provider are unchanged, an error message is
\* set, isProcessing is false again, onComplete is not invoked and a
\* provider is still selected for the next press of the button.
C2_FailedOrderKeepsCartAndProvider ==
    [][(PlaceOrderResumes /\ ~OrderReturned) =>
            /\ cart' = cart
            /\ paymentForm'.selectedProvider = paymentForm.selectedProvider
            /\ paymentForm'.selectedProvider # Null
            /\ paymentForm'.error # Null
            /\ ~paymentForm'.isProcessing
            /\ completed' = completed]_vars

\* completeCart returned the cart instead of an order: the message is shown,
\* the provider is still selected and the cart is still in the store
C2_Witness ==
    /\ paymentForm.call.pc = "idle"
    /\ paymentForm.error = "Payment incomplete. Please check details."
    /\ paymentForm.selectedProvider = "pp2"
    /\ ~paymentForm.isProcessing
    /\ cart # NullCart
    /\ completed = {}

\* C9: completeCart is requested only after an address save has succeeded,
\* then a shipping-method selection has succeeded, then a payment provider
\* has been selected, in this order, and with the payment step on screen.
C9_OrderOnlyAfterAllSteps ==
    [][(paymentForm.call.pc = "idle" /\ paymentForm'.call.pc = "sent"
        /\ paymentForm'.call.kind = "place") =>
            /\ milestones = <<"address", "shipping", "payment">>
            /\ checkoutForm.isSubmitted
            /\ checkoutForm.isShippingSelected
            /\ paymentForm.selectedProvider # Null]_vars

\* an order has been placed after the three steps
C9_Witness ==
    /\ paymentForm.call.kind = "place"
    /\ paymentForm.call.pc = "returned"
    /\ OrderReturned
    /\ milestones = <<"address", "shipping", "payment">>
    /\ server[1].shipping_methods = "so2"

\* handleSubmit resumes after updateCart in this step
SubmitResumes == checkoutForm.pc = "saved" /\ checkoutForm'.pc = "idle"

\* C10: with a validation error handleSubmit makes no backend call and the
\* step does not advance (it advances only on a successful updateCart); when
\* updateCart throws, the top-level message is the only error set,
\* isSubmitted stays false, the snapshot is unchanged and isLoading is false
\* again.
C10_InvalidOrFailedSubmitStays ==
    [][/\ (checkoutForm.pc = "idle" /\ checkoutForm'.pc # "idle") =>
            validateForm(checkoutForm.formData) = NoErrors
       /\ (~checkoutForm.isSubmitted /\ checkoutForm'.isSubmitted) =>
            (SubmitResumes /\ checkoutForm.response.ok)
       /\ (SubmitResumes /\ ~checkoutForm.response.ok) =>
            /\ checkoutForm'.apiError # Null
            /\ checkoutForm'.errors = NoErrors
            /\ ~checkoutForm'.isSubmitted
            /\ cart' = cart
            /\ ~checkoutForm'.isLoading]_vars

\* updateCart threw for a form that passed validation
C10_Witness ==
    /\ checkoutForm.pc = "idle"
    /\ validateForm(checkoutForm.formData) = NoErrors
    /\ checkoutForm.apiError =
          "Failed to save shipping information. Please try again."
    /\ ~checkoutForm.isSubmitted
    /\ ~checkoutForm.isLoading
    /\ cart # NullCart

\* the string has no character other than white space
Blank(s) == \A k \in 1..Len(s) : s[k] \in {" ", "\t", "\n"}

\* every required field of the form has a character other than white space
AllPresent(formData) ==
    \A name \in Fields \ {"apartment", "phone"} : ~Blank(formData[name])

\* the emails among EmailValues that are not of the shape local@domain.tld
MalformedEmails == {<<"f", "o", "o">>, <<"a", "@", "b">>}

\* the emails among EmailValues of the shape local@domain.tld
WellFormedEmails == {<<"a", "@", "b", ".", "c">>}

\* the submit button is pressed in this step: handleSubmit runs to its await
\* or to its return
SubmitPressed ==
    /\ checkoutForm.pc = "idle"
    /\ ~checkoutForm.isSubmitted
    /\ checkoutForm' # checkoutForm
    /\ checkoutForm'.formData = checkoutForm.formData

\* what a press of the submit button sets for the email field
EmailErrorSet(message) ==
    /\ "email" \in DOMAIN checkoutForm'.errors
    /\ checkoutForm'.errors["email"] = message
    /\ checkoutForm'.pc = "idle"

\* C11 (as stated): a blank email gets "Email is required", a malformed one
\* the format error, and a form with every required field present and a
\* well-formed email gets no error and is sent to the backend.
C11_ValidFormAlwaysSent ==
    [][SubmitPressed =>
        LET formData == checkoutForm.formData IN
        /\ Blank(formData.email) => EmailErrorSet("Email is required")
        /\ formData.email \in MalformedEmails =>
              EmailErrorSet("Please enter a valid email")
        /\ (AllPresent(formData) /\ formData.email \in WellFormedEmails) =>
              /\ checkoutForm'.errors = NoErrors
              /\ checkoutForm'.pc = "saving"]_vars

\* C11 (amended): a blank email gets "Email is required", a malformed one
\* the format error, and a form with every required field present and a
\* well-formed email gets no error; it is sent to the backend when the store
\* holds a cart, and otherwise the "No cart found" message is set and no
\* call is made.
C11_ValidFormSentForCart ==
    [][SubmitPressed =>
        LET formData == checkoutForm.formData IN
        /\ Blank(formData.email) => EmailErrorSet("Email is required")
        /\ formData.email \in MalformedEmails =>
              EmailErrorSet("Please enter a valid email")
        /\ (AllPresent(formData) /\ formData.email \in WellFormedEmails) =>
              /\ checkoutForm'.errors = NoErrors
              /\ IF cart.id # 0
                 THEN /\ checkoutForm'.pc = "saving"
                      /\ checkoutForm'.cartId = cart.id
                 ELSE /\ checkoutForm'.pc = "idle"
                      /\ checkoutForm'.apiError =
                          "No cart found. Please add items to your cart first."]_vars

\* a complete form was sent for the cart of the store
C11_Witness ==
    /\ checkoutForm.pc = "saving"
    /\ AllPresent(checkoutForm.formData)
    /\ checkoutForm.formData.email \in WellFormedEmails
    /\ checkoutForm.errors = NoErrors
    /\ checkoutForm.cartId = cart.id

\* a query the search box issued
Issued(j) == search.issued[j]

\* C12: a value of the search box that is replaced less than 300 ms after it
\* was typed is never sent to the backend; every query sent is the text of
\* a non-blank value that had been in the box unchanged for 300 ms, and is
\* sent once.
C12_QueryOnlyAfterQuietPeriod ==
    \A j \in 1..Len(search.issued) :
        /\ Issued(j).n \in 1..Len(search.typed)
        /\ Issued(j).q = search.typed[Issued(j).n].value
        /\ ~Blank(Issued(j).q)
        /\ Issued(j).waited >= DebounceDelay
        /\ Issued(j).n < Len(search.typed) =>
              search.typed[Issued(j).n + 1].gap >= DebounceDelay
        /\ \A i \in 1..(j - 1) : Issued(i).n < Issued(j).n

\* "shirt", then "shirts" less than 300 ms later: one query, for "shirts"
C12_Witness ==
    /\ Len(search.typed) = 2
    /\ search.typed[1].value = Shirt
    /\ search.typed[2].value = Shirt \o <<"s">>
    /\ search.typed[2].gap < DebounceDelay
    /\ ~search.timer.pending
    /\ search.issued =
          <<[n |-> 2, q |-> Shirt \o <<"s">>, waited |-> DebounceDelay]>>

\* the mutation of line item i ends in the catch block in this step
MutationFails(i) ==
    /\ cartIsland.calls[i].pc \in {"removed", "refetched", "updated"}
    /\ ~cartIsland.calls[i].response.ok
    /\ cartIsland'.calls[i].pc = "idle"

\* a mutation of some line item starts in this step
MutationStarts ==
    \E i \in ItemIds :
        /\ cartIsland.calls[i].pc = "idle"
        /\ cartIsland'.calls[i].pc \in {"removing", "updating"}

\* C13: when a line-item mutation fails, the item's updating flag is
\* cleared and the error message set; the snapshot, the panel's open flag
\* and the other items' updating flags stay as they were; the message is
\* removed only by dismissing it or by the start of a mutation.
C13_FailedMutationOnlyReportsError ==
    [][/\ \A i \in ItemIds : MutationFails(i) =>
            /\ i \notin cartIsland'.updatingItems
            /\ cartIsland'.error = UpdateFailed
            /\ cart' = cart
            /\ cartOpen' = cartOpen
            /\ cartIsland'.updatingItems \ {i} = cartIsland.updatingItems \ {i}
       /\ (cartIsland.error # Null /\ cartIsland'.error = Null) =>
            \/ MutationStarts
            \/ cartIsland' = [cartIsland EXCEPT !.error = Null]]_vars

\* the mutation of item a has failed while item b is still updating
C13_Witness ==
    /\ cartIsland.error = UpdateFailed
    /\ cartIsland.calls["a"].pc = "idle"
    /\ cartIsland.updatingItems = {"b"}
    /\ cart = server[cart.id]
    /\ cart # NullCart
    /\ cartOpen

\* a shipping option is picked in this step
OptionPicked ==
    /\ shippingSelector'.selectedOption # shippingSelector.selectedOption
    /\ shippingSelector'.selectedOption # Null
    /\ shippingSelector'.fetches = shippingSelector.fetches
    /\ checkoutForm' = checkoutForm

\* handleSelectOption resumes after addShippingMethod in this step
SelectResumes ==
    /\ shippingSelector.select.pc = "returned"
    /\ shippingSelector'.select.pc = "idle"

\* C14: picking a shipping option shows it as selected and sends it to the
\* backend at once.  On success the snapshot becomes the returned cart and
\* onComplete runs; on failure the selection becomes none, an error is set,
\* the snapshot and CheckoutForm are unchanged and no request is left or
\* started.  isSaving is false after both.
C14_SelectionSentAndSettled ==
    [][/\ OptionPicked =>
            /\ shippingSelector'.isSaving
            /\ shippingSelector'.select.pc = "sent"
            /\ shippingSelector'.select.optionId =
                  shippingSelector'.selectedOption
            /\ shippingSelector'.select.cartId = cart.id
       /\ (SelectResumes /\ shippingSelector.select.response.ok) =>
            /\ cart' = shippingSelector.select.response.cart
            /\ checkoutForm'.isShippingSelected
            /\ shippingSelector'.selectedOption =
                  shippingSelector.selectedOption
            /\ ~shippingSelector'.isSaving
       /\ (SelectResumes /\ ~shippingSelector.select.response.ok) =>
            /\ shippingSelector'.selectedOption = Null
            /\ shippingSelector'.error # Null
            /\ cart' = cart
            /\ checkoutForm' = checkoutForm
            /\ shippingSelector'.fetches = shippingSelector.fetches
            /\ shippingSelector'.orphans = shippingSelector.orphans
            /\ server' = server
            /\ ~shippingSelector'.isSaving]_vars

\* a second selection failed after a first one had succeeded: nothing is
\* shown as selected while the cart keeps the first option
C14_Witness ==
    /\ checkoutForm.isShippingSelected
    /\ shippingSelector.select.pc = "idle"
    /\ shippingSelector.selectedOption = Null
    /\ shippingSelector.error =
          "Failed to set shipping method. Please try again."
    /\ ~shippingSelector.isSaving
    /\ cart.shipping_methods = "so1"

\* closeCart runs in this step
PanelCloses == cartOpen /\ ~cartOpen'

\* C16: Escape, like every other closeCart of an open panel, closes it;
\* closeCart schedules focus for the element given to the openCart call that
\* opened the panel, and for none when that call gave none; the stored
\* trigger is null after closeCart, so a closed panel stores no trigger.
C16_CloseReturnsFocusToOpener ==
    [][/\ PanelCloses =>
            /\ focus'.returnTo = focus.opener
            /\ cartTrigger' = Null
       /\ ~cartOpen' => cartTrigger' = Null]_vars

\* CartButton opened the panel and closeCart sent focus back to it; then
\* add-to-cart opened the panel again, without a trigger, and none is stored
C16_Witness ==
    /\ cartOpen
    /\ focus.opener = Null
    /\ focus.returnTo = "CartButton"
    /\ cartTrigger = Null
    /\ cartAnnouncement = <<"Added", Variant>>

\* the mutation of line item i completes successfully in this step
MutationSucceeds(i) ==
    /\ cartIsland.calls[i].pc \in {"refetched", "updated"}
    /\ cartIsland.calls[i].response.ok
    /\ cartIsland'.calls[i].pc = "idle"

\* C15: while a mutation of one line item is in flight the controls of
\* another item of the open panel still start a mutation, and the running
\* mutation is not touched by it; every mutation that completes successfully
\* makes the cart of its own response the snapshot, so after two of them
\* the snapshot is the cart of the response that completed last.
C15_LastCompletedResponseWins ==
    [][\A i \in ItemIds :
        /\ MutationSucceeds(i) =>
              /\ cart' = cartIsland.calls[i].response.cart
              /\ \A j \in ItemIds \ {i} :
                    cartIsland'.calls[j] = cartIsland.calls[j]
        /\ \A j \in ItemIds \ {i} :
              (/\ i \in cartIsland.updatingItems
               /\ cartOpen
               /\ j \in DOMAIN cart.items
               /\ j \notin cartIsland.updatingItems)
              => ENABLED handleRemoveItem(j)]_vars

\* both quantity updates succeeded and the one of item "a" completed last
\* with the older cart: the snapshot lacks the update of item "b" that the
\* backend holds
C15_Witness ==
    /\ cartIsland.updatingItems = {}
    /\ cartIsland.error = Null
    /\ cartAnnouncement = <<"Updated", "a", 2>>
    /\ cart.id # 0
    /\ cart.items = [i \in ItemIds |-> IF i = "a" THEN 2 ELSE 1]
    /\ server[cart.id].items = [i \in ItemIds |-> 2]

\* the announcer's timer clears an announcement in this step
AnnouncementCleared ==
    /\ cartAnnouncement # NoAnnouncement
    /\ cartAnnouncement' = NoAnnouncement

\* C17: an announcement that an island sets while the clear timer of an
\* older one is pending and not yet due is cleared only after it has been
\* in the store for the full AnnouncementDelay, never by the older timer.
C17_ClearedOnlyAfterFullDelay ==
    [][(AnnouncementCleared /\ announcer.placedEarly) =>
            announcer.placedMs >= AnnouncementDelay]_vars

\* the calls of a set that wait for the backend
Sent(calls) == {c \in calls : c.pc = "sent"}

\* no island sends a request to the backend in this step
NoRequestIssued ==
    /\ checkoutForm'.pc = "saving" => checkoutForm.pc = "saving"
    /\ Sent(shippingSelector'.fetches) \subseteq Sent(shippingSelector.fetches)
    /\ Sent(shippingSelector'.orphans) \subseteq Sent(shippingSelector.orphans)
    /\ shippingSelector'.select.pc = "sent" =>
          shippingSelector.select.pc = "sent"
    /\ Sent(paymentForm'.loads) \subseteq Sent(paymentForm.loads)
    /\ paymentForm'.call.pc = "sent" => paymentForm.call.pc = "sent"
    /\ \A i \in ItemIds :
          cartIsland'.calls[i].pc \in {"removing", "refetching", "updating"}
          => cartIsland'.calls[i].pc = cartIsland.calls[i].pc
    /\ addToCart'.pc \in {"creating", "adding"} => addToCart'.pc = addToCart.pc
    /\ initializer'.pc = "fetching" => initializer.pc = "fetching"
    /\ Sent(search'.calls) \subseteq Sent(search.calls)
    /\ search'.timer.pending => search.timer.pending

\* CheckoutForm's handleSubmit handles a failed address save in this step
AddressFails ==
    /\ checkoutForm.pc = "saved"
    /\ ~checkoutForm.response.ok
    /\ checkoutForm'.pc = "idle"

\* the shipping step handles a failed option load or selection in this step
ShippingFails ==
    \/ \E f \in shippingSelector.fetches :
          /\ f.pc = "returned"
          /\ ~f.ok
          /\ f \notin shippingSelector'.fetches
          /\ shippingSelector'.error =
                "Unable to load shipping options. Please try again."
    \/ /\ SelectResumes
       /\ ~shippingSelector.select.response.ok
       /\ shippingSelector'.orphans = shippingSelector.orphans
    \/ \E c \in shippingSelector.orphans :
          /\ c.pc = "returned"
          /\ ~c.response.ok
          /\ c \notin shippingSelector'.orphans

\* the payment step handles a failed provider load, session initiation or
\* order completion in this step
PaymentFails ==
    \/ \E l \in paymentForm.loads :
          /\ l.pc = "returned"
          /\ ~l.ok
          /\ l \notin paymentForm'.loads
          /\ paymentForm'.error = "Failed to load payment options."
    \/ /\ paymentForm.call.pc = "returned"
       /\ ~paymentForm.call.response.ok
       /\ paymentForm'.call.pc # "returned"

\* the search island handles a failed product search in this step
SearchFails ==
    \E c \in search.calls :
        c.pc = "returned" /\ ~c.ok /\ c \notin search'.calls

InitializerStarts == initializer.pc = "idle" /\ initializer'.pc # "idle"

\* initializeCart finds no identifier (no entry, or getItem throws) and
\* returns null: no fetch, snapshot and loading flag as they were
AbsentKeyIsNoCart ==
    (InitializerStarts /\ getStoredCartId = 0) =>
        /\ initializer'.pc = "done"
        /\ initializer'.result = 0
        /\ cart' = cart
        /\ cartLoading' = cartLoading
        /\ storage' = storage

\* the removal of the identifier after an order removes the entry that
\* getStoredCartId reads
RemovalUsesKey ==
    (PlaceOrderResumes /\ OrderReturned /\ storageMode = "ok") =>
        getStoredCartId' = 0

\* C19: the persisted identifier lives under one key that every read, write
\* and removal uses, so the removal after an order leaves nothing for
\* getStoredCartId to read; without an entry, or when reading throws,
\* initializeCart returns null without a fetch and without changing the
\* snapshot or the loading flag.
C19_OneKeyAndAbsentMeansNoCart ==
    [][RemovalUsesKey /\ AbsentKeyIsNoCart]_vars

\* the add-to-cart button is pressed in this step
AddToCartPressed == addToCart.pc = "idle" /\ addToCart'.pc # "idle"

\* handleAddToCart resumes after a createCart that succeeded in this step
CartCreated ==
    /\ addToCart.pc = "created"
    /\ addToCart.response.ok
    /\ addToCart'.pc # "created"

\* handleAddToCart resumes after an addToCart that failed in this step
AddFails ==
    /\ addToCart.pc = "added"
    /\ ~addToCart.response.ok
    /\ addToCart'.pc = "idle"

\* what C20 says apart from persistence: a cart is created only for an
\* empty store, the new cart becomes the snapshot and receives the line
\* item, an existing cart receives it without a create call, and a failed
\* add leaves snapshot, localStorage and panel alone and shows the error
AddToCartFlow ==
    /\ AddToCartPressed =>
          IF cart.id = 0
          THEN addToCart'.pc = "creating"
          ELSE addToCart'.pc = "adding" /\ addToCart'.cartId = cart.id
    /\ nextCartId' # nextCartId => addToCart.pc = "creating"
    /\ CartCreated =>
          /\ cart' = addToCart.response.cart
          /\ cart'.items = NoItems
          /\ addToCart'.pc = "adding"
          /\ addToCart'.cartId = cart'.id
    /\ (addToCart.pc = "adding" /\ addToCart'.pc = "added") =>
          \A id \in CartIds \ {addToCart.cartId} : server'[id] = server[id]
    /\ AddFails =>
          /\ cart' = cart
          /\ storage' = storage
          /\ cartOpen' = cartOpen
          /\ addToCart'.error = "Failed to add item. Please try again."
          /\ ~addToCart'.isLoading

\* C20 (as stated): add-to-cart creates a cart only when the store holds
\* none, stores the new cart and persists its identifier, then adds the line
\* item to it; with a cart in the store it sends no create call and adds to
\* that cart.  When the add fails after the create, the empty new cart stays
\* in the store and persisted, the error is shown and the panel is not
\* opened.
C20_CreatedCartAlwaysPersisted ==
    [][/\ AddToCartFlow
       /\ CartCreated => Persisted' = cart'.id]_vars

\* C20 (amended): as above, but the identifier of the new cart is persisted
\* when localStorage accepts the write; when the write throws, localStorage
\* stays as it was.
C20_CreatedCartPersistedWhenWritable ==
    [][/\ AddToCartFlow
       /\ CartCreated =>
            IF storageMode = "ok"
            THEN Persisted' = cart'.id
            ELSE storage' = storage]_vars

\* the create succeeded and the add failed: the empty new cart is the
\* snapshot and persisted, the error is shown and the panel is closed
C20_Witness ==
    /\ addToCart.pc = "idle"
    /\ addToCart.error = "Failed to add item. Please try again."
    /\ ~addToCart.isLoading
    /\ cart.id # 0
    /\ cart.id = addToCart.cartId
    /\ cart.items = NoItems
    /\ server[cart.id].items = NoItems
    /\ Persisted = cart.id
    /\ ~cartOpen
    /\ initializer.pc = "idle"

\* handleSelectPayment starts, is answered or resumes in this step
SelectPaymentStarts ==
    /\ paymentForm.call.pc = "idle"
    /\ paymentForm'.call.pc = "sent"
    /\ paymentForm'.call.kind = "select"

SelectPaymentAnswered ==
    /\ paymentForm.call.kind = "select"
    /\ paymentForm.call.pc = "sent"
    /\ paymentForm'.call.pc = "returned"

SelectPaymentResumes ==
    /\ paymentForm.call.kind = "select"
    /\ paymentForm.call.pc = "returned"
    /\ paymentForm'.call.pc = "idle"

\* C21: selecting a payment provider sends initiatePaymentSession for the
\* provider and the snapshot's cart; from the press to the end of the
\* handler the snapshot, localStorage, the other checkout components and
\* the payment form's providers and loading state stay as they are.  The
\* press shows the provider as selected, clears the error and sets
\* isProcessing; a failure resets the selection to none and sets the error,
\* a success keeps selection and error; isProcessing is false after both.
C21_SelectPaymentTouchesOnlyItsFlags ==
    [][/\ (SelectPaymentStarts \/ SelectPaymentAnswered
           \/ SelectPaymentResumes) =>
            /\ cart' = cart
            /\ storage' = storage
            /\ checkoutForm' = checkoutForm
            /\ shippingSelector' = shippingSelector
            /\ paymentForm'.providers = paymentForm.providers
            /\ paymentForm'.isLoading = paymentForm.isLoading
            /\ paymentForm'.loads = paymentForm.loads
       /\ SelectPaymentStarts =>
            /\ paymentForm'.selectedProvider = paymentForm'.call.providerId
            /\ paymentForm'.selectedProvider \in paymentForm.providers
            /\ paymentForm'.call.cartId = cart.id
            /\ paymentForm'.error = Null
            /\ paymentForm'.isProcessing
       /\ SelectPaymentResumes =>
            /\ ~paymentForm'.isProcessing
            /\ IF paymentForm.call.response.ok
               THEN /\ paymentForm'.selectedProvider =
                         paymentForm.selectedProvider
                    /\ paymentForm'.error = paymentForm.error
               ELSE /\ paymentForm'.selectedProvider = Null
                    /\ paymentForm'.error =
                     "Failed to initialize payment method. Please try again."
      ]_vars

\* the backend holds a payment session that the snapshot does not show, a
\* selection has failed and no provider is selected
C21_Witness ==
    /\ paymentForm.call.pc = "idle"
    /\ paymentForm.selectedProvider = Null
    /\ paymentForm.error =
          "Failed to initialize payment method. Please try again."
    /\ ~paymentForm.isProcessing
    /\ cart.id # 0
    /\ Persisted = cart.id
    /\ cart.payment_session = Null
    /\ server[cart.id].payment_session # Null

\* C22: in a session whose localStorage is usable, whenever the store holds
\* a cart the persisted identifier is that cart's id, also when add-to-cart
\* runs while the fetch of initializeCart is in flight.
C22_SnapshotCartIsPersisted ==
    (storageMode = "ok" /\ cart # NullCart) => Persisted = cart.id

\* C23: in CheckoutForm isShippingSelected implies isSubmitted, also when
\* "Edit shipping address" is pressed while addShippingMethod is in flight
\* and its response arrives afterwards.
C23_ShippingSelectedOnlyWhenSubmitted ==
    checkoutForm.isShippingSelected => checkoutForm.isSubmitted

\* C24: when no debounce timer is pending and no search is in flight, a
\* blank box holds no results and a closed panel, and any other box holds
\* the products found for its text (or none, when that search failed): the
\* response to an older query never replaces them.
C24_ResultsBelongToLatestQuery ==
    (~search.timer.pending /\ search.calls = {}) =>
        IF Blank(search.query)
        THEN search.results = <<>> /\ ~search.isOpen
        ELSE search.results \in {<<"products", search.query>>, <<>>}

\* a request of the payment form is sent in this step
PaymentRequestStarts ==
    /\ paymentForm'.call.pc = "sent"
    /\ paymentForm.call.pc # "sent"

\* a handler of the payment form finishes in this step
PaymentRequestSettles ==
    /\ paymentForm.call.pc = "returned"
    /\ paymentForm'.call.pc = "idle"

\* the provider radios and the place-order button accept no input
PaymentControlsDisabled ==
    /\ ~ENABLED handlePlaceOrder
    /\ \A providerId \in Providers : ~ENABLED handleSelectPayment(providerId)

\* C25: at most one completeCart request is in flight and none is in flight
\* together with an initiatePaymentSession: a request of the payment form
\* starts only when none is in flight and isProcessing is false, isProcessing
\* is true and the radios and the place-order button are disabled for as long
\* as a request is in flight, and isProcessing is false once the handler has
\* finished, whatever the outcome.
C25_OnePaymentRequestAtATime ==
    /\ [](paymentForm.isProcessing <=> paymentForm.call.pc # "idle")
    /\ [](paymentForm.call.pc # "idle" => PaymentControlsDisabled)
    /\ [][PaymentRequestStarts =>
              /\ paymentForm.call.pc = "idle"
              /\ ~paymentForm.isProcessing
              /\ paymentForm'.isProcessing]_vars
    /\ [][PaymentRequestSettles => ~paymentForm'.isProcessing]_vars

\* completeCart threw: the controls are enabled again, with the provider
\* still selected
C25_Witness ==
    /\ PaymentShown
    /\ paymentForm.call.pc = "idle"
    /\ ~paymentForm.isProcessing
    /\ paymentForm.error = "Failed to place order. Please try again."
    /\ paymentForm.selectedProvider # Null
    /\ ENABLED handlePlaceOrder

\* the mounted ShippingMethodSelector shows its loading view
ShippingLoading == checkoutForm.isSubmitted /\ shippingSelector.isLoading

\* C26: the loading view of the shipping step always ends: whenever
\* isLoading is true, also after "Try again" was pressed on a failed load,
\* a fetch of the shipping options runs and isLoading becomes false.
C26_ShippingLoadingEnds == ShippingLoading ~> ~ShippingLoading

\* the mounted PaymentForm shows its loading view
PaymentLoading == PaymentMounted(checkoutForm) /\ paymentForm.isLoading

\* C27: the loading view of the payment form always ends: isLoading, true
\* on mount, becomes false whatever cart the form is mounted with, also a
\* cart without a region identifier or no cart.
C27_PaymentLoadingEnds == PaymentLoading ~> ~PaymentLoading

\* the "-", "+" and "Remove" buttons of line item i accept no input
ItemControlsDisabled(i) ==
    /\ ~ENABLED decrease(i)
    /\ ~ENABLED increase(i)
    /\ ~ENABLED handleRemoveItem(i)

\* a request of item i's mutation is sent in this step
ItemMutationStarts(i) ==
    /\ cartIsland'.calls[i].pc \in {"removing", "updating"}
    /\ cartIsland'.calls[i] # cartIsland.calls[i]

\* C28: at most one mutation per line item is in flight: an item is in
\* updatingItems exactly from the start of its mutation until it settles,
\* its three controls are disabled for that time, a mutation of an item
\* starts only when none is in flight for it, and a step that is not a step
\* of the item's own mutation neither sets nor clears its flag.
C28_OneMutationPerItem ==
    /\ [](\A i \in ItemIds :
             i \in cartIsland.updatingItems <=>
                 cartIsland.calls[i].pc # "idle")
    /\ [](\A i \in cartIsland.updatingItems : ItemControlsDisabled(i))
    /\ [][\A i \in ItemIds :
              /\ ItemMutationStarts(i) => cartIsland.calls[i].pc = "idle"
              /\ cartIsland'.calls[i] = cartIsland.calls[i] =>
                     (i \in cartIsland'.updatingItems <=>
                          i \in cartIsland.updatingItems)]_vars

\* item b is being removed while the update of item a has been answered:
\* the controls of both are disabled
C28_Witness ==
    /\ cartOpen
    /\ cartIsland.updatingItems = {"a", "b"}
    /\ cartIsland.calls["a"].pc = "updated"
    /\ cartIsland.calls["b"].pc = "removing"
    /\ {"a", "b"} \subseteq DOMAIN cart.items

\* the handler that removed line item i finishes in this step: pc is
\* "refetched" only after removeLineItem has succeeded
RemovalFinishes(i) ==
    /\ cartIsland.calls[i].pc = "refetched"
    /\ cartIsland'.calls[i].pc = "idle"

\* C29: once the handler of a delete that succeeded at the backend has
\* finished, the removed line item is not in the snapshot, also when the
\* getCart that follows the delete failed.
C29_RemovedItemLeavesSnapshot ==
    [][\A i \in ItemIds :
          RemovalFinishes(i) => i \notin DOMAIN cart'.items]_vars

\* initializeCart waits for its fetch or for its resumption
InitializerRunning == initializer.pc \in {"fetching", "fetched"}

\* C30: $cartLoading is true exactly while the fetch of initializeCart is
\* in flight: initializeCart sets it only when a persisted identifier
\* exists, every exit path (cart adopted, completed, not found, fetch
\* threw) resets it, and it is false whenever no initialization runs.
C30_LoadingWhileInitializing ==
    /\ [](cartLoading <=> InitializerRunning)
    /\ [][InitializerStarts => (cartLoading' <=> getStoredCartId # 0)]_vars
    /\ [][InitializerResumes => ~cartLoading']_vars

\* the persisted cart was adopted and loading has ended, while an
\* add-to-cart is in flight
C30_Witness ==
    /\ initializer.pc = "done"
    /\ initializer.result # 0
    /\ cart.id = initializer.result
    /\ ~cartLoading
    /\ addToCart.pc # "idle"

====
